---- MODULE Spec2Model ----
(***************************************************************************)
(* A model of the mesh root of the ATE chain-of-trust (src/src/mesh/root.rs)*)
(* together with the parts of the chain, the transmit groups and the client *)
(* pipe that its handlers call.                                             *)
(*                                                                          *)
(* One mesh root owns one chain.  Client connections ("sessions") put       *)
(* packets on the root's inbox; the root's single inbox task takes one      *)
(* packet at a time and runs its handler to completion.  The historical     *)
(* replay of inbox_subscribe releases the chain lock between batches, so    *)
(* the replay is one step per batch; the disconnect hook of a connection    *)
(* runs in a task of its own.                                               *)
(*                                                                          *)
(* An Option<T> of the source is a sequence of length at most one:          *)
(* <<>> is None and <<v>> is Some(v).                                       *)
(***************************************************************************)
EXTENDS Integers, Sequences, FiniteSets, TLC

\* ------------------------------------------------------------------------
\* Bounds
\* ------------------------------------------------------------------------
NumSessions == 3       \* connections to the root
LockSessions == 2      \* those of them that take part in the lock protocol
NumKeys == 2           \* primary keys
MaxEvents == 4         \* events ever created (event hashes 1..MaxEvents)
MaxInitHistory == 3    \* events in the redo-log a restarted root loads
BatchSize == 2         \* stands for the 1000 of the replay loop (root.rs:177)
MaxPackets == 3        \* packets the clients send in all
MaxLockPackets == 5    \* the same, when they exercise the lock protocol
MaxReplayPackets == 2  \* the same, when they exercise the replay
MaxCommitPackets == 3  \* the same, when they exercise the write path
MaxCastPackets == 4    \* the same, when they exercise the multicast
MaxMisusePackets == 3  \* the same, when they send before they subscribe
MaxSampleHash == 2     \* a client's sample is drawn from events 1..MaxSampleHash
MaxInflight == 2       \* packets of one connection waiting in the inbox
MaxTxEvents == 2       \* events of one transaction
NumColls == 2          \* parent collections (MetaCollection)
MaxCore == 2           \* core metadata entries of one event header
MaxFed == 3            \* event headers fed to an indexer
NumCallers == 3        \* tasks that call open on one root
MaxOpenCalls == 5      \* calls of open in all
MaxChainValues == 3    \* Chain values (the first and its clones) of one chain
MaxArcs == 4           \* Arc references to one Chain value
NumHooks == 2          \* service hooks of one chain for one request type
NumRequests == 2       \* rows written to the chain of the service
MaxWriterPackets == 3  \* Events packets the sessions send to one chain
MaxLocalWrites == 2    \* feeds of a writer on the server itself
NumGroups == 3         \* TxGroup values
NumTx == 2             \* downcast connections
NumClosers == 2        \* tasks that call Chain::shutdown
MaxShutdownCalls == 3  \* calls of Chain::shutdown on one chain

Sessions == 1..NumSessions
Keys == 1..NumKeys
Hashes == 1..MaxEvents

\* The chain this root owns and a chain that hashes to another root.
OwnedChain == "test-chain"
ForeignChain == "other-chain"
ChainKeys == {OwnedChain, ForeignChain}

\* A sample hash the server's history never holds.
UnknownHash == MaxEvents + 1

VARIABLES
    chains,      \* MeshRoot.chains: the keys of the chains constructed
    context,     \* SessionContextProtected of every connection
    conn,        \* "open", "dropped" (Drop ran, hook spawned), "closed"
    locks,       \* the lock set of the chain's pipe
    history,     \* chain.history, in offset order; an event is its hash
    nextHash,    \* the next event hash a writer creates
    inbox,       \* packets sent by a connection, not yet taken by the root
    outbox,      \* every message the root sent to a connection, in order
    root_pc,     \* position of the root's inbox task
    group,       \* TxGroup.all of the chain: connections events go to
    sent,        \* number of packets a connection has sent
    call,        \* the client call that waits for a commit reply
    holders,     \* history: sessions granted a key and not since released
    confirmed,   \* history: events of commits that returned success
    openedWith,  \* history: `confirmed` when the session sent Subscribe
    fedEvents,   \* history: the events a session has fed to its pipe
    rejected,    \* history: the events of transactions the root refused
    indexer,     \* a BinaryTreeIndexer and what has been fed to it
    opening,     \* MeshRoot.chains as a registry, and the callers of open
    handles,     \* the Chain values of one chain and the references to them
    link,        \* one connection: hello, certificate check, key exchange
    crypto,      \* the operands and results of one key operation
    service,     \* a chain's request rows and the service hooks notified of them
    url,         \* the arguments and the result of one make_url
    router,      \* the routes of a StreamRouter and its last dispatch
    loop,        \* the read loop of process_inbox for one connection
    writer,      \* inbox_event statement by statement and the chain's writer lock
    txg,         \* the groups of the downcast connections and their replace_group calls
    closing,     \* the calls of Chain::shutdown on one chain
    throttle     \* the arguments and the result of one wait-time computation

\* The state of the mesh root and its connections.
mesh_vars == << chains, context, conn, locks, history, nextHash, inbox,
               outbox, root_pc, group, sent, call, holders, confirmed,
               openedWith, fedEvents, rejected >>

\* The state of the library components that are checked apart from the root.
lib_vars == << indexer, opening, handles, link, crypto, service, url,
               router, loop, writer, txg, closing, throttle >>

\* What a step of one component leaves alone.
not_indexer == << mesh_vars, opening, handles, link, crypto, service, url,
                  router, loop, writer, txg, closing, throttle >>
not_opening == << mesh_vars, indexer, handles, link, crypto, service, url,
                  router, loop, writer, txg, closing, throttle >>
not_handles == << mesh_vars, indexer, opening, link, crypto, service, url,
                  router, loop, writer, txg, closing, throttle >>
not_link == << mesh_vars, indexer, opening, handles, crypto, service, url,
               router, loop, writer, txg, closing, throttle >>
not_crypto == << mesh_vars, indexer, opening, handles, link, service, url,
                 router, loop, writer, txg, closing, throttle >>
not_service == << mesh_vars, indexer, opening, handles, link, crypto, url,
                  router, loop, writer, txg, closing, throttle >>
not_url == << mesh_vars, indexer, opening, handles, link, crypto, service,
              router, loop, writer, txg, closing, throttle >>
not_router == << mesh_vars, indexer, opening, handles, link, crypto,
                 service, url, loop, writer, txg, closing, throttle >>
not_loop == << mesh_vars, indexer, opening, handles, link, crypto, service,
               url, router, writer, txg, closing, throttle >>
not_writer == << mesh_vars, indexer, opening, handles, link, crypto,
                 service, url, router, loop, txg, closing, throttle >>
not_txg == << mesh_vars, indexer, opening, handles, link, crypto, service,
              url, router, loop, writer, closing, throttle >>
not_closing == << mesh_vars, indexer, opening, handles, link, crypto,
                  service, url, router, loop, writer, txg, throttle >>
not_throttle == << mesh_vars, indexer, opening, handles, link, crypto,
                   service, url, router, loop, writer, txg, closing >>

vars == << mesh_vars, lib_vars >>

\* ------------------------------------------------------------------------
\* Helpers
\* ------------------------------------------------------------------------
Min(a, b) == IF a < b THEN a ELSE b

Range(seq) == { seq[i] : i \in 1..Len(seq) }

\* PrimaryKey of the Data entry of an event.
KeyOf(h) == ((h - 1) % NumKeys) + 1

\* SessionContext::default (root.rs:43-54)
DefaultContext == [ root |-> FALSE, chain_key |-> <<>>, locks |-> {} ]

NoCall == [ kind |-> "none", id |-> <<>>, seq |-> 0, prior |-> {},
            result |-> "none" ]

Idle == [ state |-> "idle" ]

\* PacketData::reply_at: the message is appended to the connection's stream.
reply_at(out, s, msg) == [ out EXCEPT ![s] = Append(@, msg) ]

\* ------------------------------------------------------------------------
\* The indexer (lib/src/index.rs, src/index.rs)
\* ------------------------------------------------------------------------
Collections == 1..NumColls

\* CoreMetadata: Data(key), Tombstone(key), Tree(MetaTree { vec }).
Metadata == [ m : { "Data", "Tombstone" }, arg : Keys ]
                \cup [ m : { "Tree" }, arg : Collections ]

Cores == UNION { [ 1..n -> Metadata ] : n \in 0..MaxCore }

\* The event headers with event hash h: with and without a payload.
EventHeaders(h) ==
    [ core : Cores, data_hash : { <<>>, << h >> }, event_hash : { h } ]

MinOf(S) == CHOOSE x \in S : \A y \in S : x <= y

\* The positions of the entries of one kind in a core.
Entries(core, kind) == { i \in 1..Len(core) : core[i].m = kind }

\* Metadata::get_tree: the first Tree entry.
get_tree(core) ==
    IF Entries(core, "Tree") = {} THEN <<>>
    ELSE << core[MinOf(Entries(core, "Tree"))].arg >>

\* Metadata::get_data_key: the key of the first Data entry.
get_data_key(core) ==
    IF Entries(core, "Data") = {} THEN <<>>
    ELSE << core[MinOf(Entries(core, "Data"))].arg >>

\* Vec::retain(|x| *x != *key)
retain(vec, key) == SelectSeq(vec, LAMBDA x : x # key)

\* BinaryTreeIndexer::default: both maps empty.  A collection without an
\* entry in the multimap is the empty vector.
DefaultIndexer ==
    [ primary |-> [ k \in Keys |-> <<>> ],
      secondary |-> [ c \in Collections |-> <<>> ] ]

\* The second loop of feed (lib/src/index.rs:56-71).
RECURSIVE feed_insert(_, _, _)
feed_insert(idx, entry, i) ==
    IF i > Len(entry.core) THEN idx
    ELSE LET core == entry.core[i]
         IN  IF core.m = "Data"
             THEN IF entry.data_hash = <<>>
                  THEN feed_insert(idx, entry, i + 1)
                  ELSE feed_insert(
                         [ idx EXCEPT !.primary[core.arg] =
                                         << entry.event_hash >> ],
                         entry, i + 1)
             ELSE IF core.m = "Tree"
             THEN IF get_data_key(entry.core) # <<>>
                  THEN feed_insert(
                         [ idx EXCEPT !.secondary[core.arg] =
                                         Append(@, get_data_key(entry.core)[1]) ],
                         entry, i + 1)
                  ELSE feed_insert(idx, entry, i + 1)
             ELSE feed_insert(idx, entry, i + 1)

\* BinaryTreeIndexer::feed (lib/src/index.rs:40-72): the first Tombstone
\* entry is handled and feed returns; otherwise the entries are inserted.
feed(idx, entry) ==
    LET tombs == Entries(entry.core, "Tombstone")
    IN  IF tombs # {}
        THEN LET key == entry.core[MinOf(tombs)].arg
                 tree == get_tree(entry.core)
             IN  [ primary |-> [ idx.primary EXCEPT ![key] = <<>> ],
                   secondary |->
                      IF tree = <<>> THEN idx.secondary
                      ELSE [ idx.secondary EXCEPT ![tree[1]] = retain(@, key) ] ]
        ELSE feed_insert(idx, entry, 1)

\* BinaryTreeIndexer::lookup_primary (lib/src/index.rs:74-79)
lookup_primary(idx, key) == idx.primary[key]

\* BinaryTreeIndexer::lookup_secondary (lib/src/index.rs:81-92): the hashes
\* of the members of the collection that the primary map still holds.
lookup_secondary(idx, c) ==
    LET live == SelectSeq(idx.secondary[c], LAMBDA k : idx.primary[k] # <<>>)
    IN  [ i \in 1..Len(live) |-> idx.primary[live[i]][1] ]

\* BinaryTreeIndexer<M>::feed of src/index.rs:41-56: one map, the entries of
\* the core handled in their order.
RECURSIVE events_feed(_, _, _)
events_feed(events, entry, i) ==
    IF i > Len(entry.core) THEN events
    ELSE LET core == entry.core[i]
         IN  IF core.m = "Tombstone"
             THEN events_feed([ events EXCEPT ![core.arg] = <<>> ], entry, i + 1)
             ELSE IF core.m = "Data" /\ entry.data_hash # <<>>
             THEN events_feed([ events EXCEPT ![core.arg] =
                                  << entry.event_hash >> ], entry, i + 1)
             ELSE events_feed(events, entry, i + 1)

\* The entry holds Data(k) and a payload / holds Tombstone(k).
HasData(entry, k) ==
    /\ entry.data_hash # <<>>
    /\ \E i \in Entries(entry.core, "Data") : entry.core[i].arg = k

HasTombstone(entry, k) ==
    \E i \in Entries(entry.core, "Tombstone") : entry.core[i].arg = k

\* History: the answers that fit "the hash of the most recent event with
\* Data(k) and a payload that has not been tombstoned since".  An event that
\* holds both Data(k) and Tombstone(k) fits either reading.
recent(want, entry) ==
    [ k \in Keys |->
        IF HasData(entry, k) /\ HasTombstone(entry, k)
        THEN { <<>>, << entry.event_hash >> }
        ELSE IF HasData(entry, k) THEN { << entry.event_hash >> }
        ELSE IF HasTombstone(entry, k) THEN { <<>> }
        ELSE want[k] ]

IndexerInit ==
    [ idx |-> DefaultIndexer,
      events |-> [ k \in Keys |-> <<>> ],
      last |-> <<>>,
      count |-> 0,
      want |-> [ k \in Keys |-> { <<>> } ] ]

\* One event header is fed to both indexers.
Feed ==
    /\ indexer.count < MaxFed
    /\ \E entry \in EventHeaders(indexer.count + 1) :
          indexer' = [ idx |-> feed(indexer.idx, entry),
                       events |-> events_feed(indexer.events, entry, 1),
                       last |-> << entry >>,
                       count |-> indexer.count + 1,
                       want |-> recent(indexer.want, entry) ]
    /\ UNCHANGED not_indexer

\* ------------------------------------------------------------------------
\* MeshRoot::open_internal, statement by statement (root.rs:372-390)
\* ------------------------------------------------------------------------
Callers == 1..NumCallers

\* MeshRoot::new: an empty registry (root.rs:101); no caller is inside open.
\* `built` counts the chains constructed for a key, `handed` collects the
\* instances that calls have returned for it, `raced` tells that a chain was
\* constructed while another call for the same key waited for the mutex.
OpeningInit ==
    [ mutex |-> <<>>,
      registry |-> [ key \in ChainKeys |-> <<>> ],
      pc |-> [ p \in Callers |-> "idle" ],
      key |-> [ p \in Callers |-> OwnedChain ],
      calls |-> 0,
      built |-> [ key \in ChainKeys |-> 0 ],
      handed |-> [ key \in ChainKeys |-> {} ],
      failed |-> <<>>,
      raced |-> FALSE ]

\* self.lookup.lookup(key) names an address of this root (root.rs:380-383).
lookup_here(key) == key = OwnedChain

\* A guard that is dropped before the chain is constructed.
guard_after_lookup_dropped(p) == <<>>

\* The MutexGuard `chains` lives to the end of open_internal (root.rs:375):
\* the caller still holds it while Chain::new is awaited.
guard_after_lookup(p) == << p >>

\* A task calls open_internal(key) (root.rs:372).
OpenCall ==
    \E p \in Callers, key \in ChainKeys :
        /\ opening.pc[p] = "idle"
        /\ opening.calls < MaxOpenCalls
        /\ opening' = [ opening EXCEPT !.pc[p] = "lock",
                                       !.key[p] = key,
                                       !.calls = @ + 1 ]
        /\ UNCHANGED not_opening

\* let mut chains = self.chains.lock().await (root.rs:375)
OpenLock ==
    \E p \in Callers :
        /\ opening.pc[p] = "lock"
        /\ opening.mutex = <<>>
        /\ opening' = [ opening EXCEPT !.mutex = << p >>,
                                       !.pc[p] = "entry",
                                       !.failed = <<>> ]
        /\ UNCHANGED not_opening

\* match chains.entry(key): Occupied returns the chain of the registry;
\* Vacant asks the lookup and fails with NoRootFound for a foreign key
\* (root.rs:376-383).
OpenEntry ==
    \E p \in Callers :
        /\ opening.pc[p] = "entry"
        /\ LET key == opening.key[p]
           IN  IF opening.registry[key] # <<>>
               THEN opening' = [ opening EXCEPT
                                   !.mutex = <<>>,
                                   !.pc[p] = "idle",
                                   !.handed[key] = @ \cup { opening.registry[key][1] } ]
               ELSE IF lookup_here(key)
               THEN opening' = [ opening EXCEPT
                                   !.mutex = guard_after_lookup(p),
                                   !.pc[p] = "build" ]
               ELSE opening' = [ opening EXCEPT
                                   !.mutex = <<>>,
                                   !.pc[p] = "idle",
                                   !.failed = << key >> ]
        /\ UNCHANGED not_opening

\* v.insert(Arc::new(Chain::new(builder, &key).await?)) (root.rs:385-386):
\* a construction error leaves through `?` before the insert.
OpenBuild ==
    \E p \in Callers, ok \in BOOLEAN :
        /\ opening.pc[p] = "build"
        /\ LET key == opening.key[p]
               inst == opening.built[key] + 1
           IN  IF ok
               THEN opening' = [ opening EXCEPT
                                   !.mutex = IF @ = << p >> THEN <<>> ELSE @,
                                   !.pc[p] = "idle",
                                   !.registry[key] = << inst >>,
                                   !.built[key] = inst,
                                   !.handed[key] = @ \cup { inst },
                                   !.raced = @ \/ \E q \in Callers \ {p} :
                                                     /\ opening.pc[q] = "lock"
                                                     /\ opening.key[q] = key ]
               ELSE opening' = [ opening EXCEPT
                                   !.mutex = IF @ = << p >> THEN <<>> ELSE @,
                                   !.pc[p] = "idle",
                                   !.failed = << key >> ]
        /\ UNCHANGED not_opening

\* ------------------------------------------------------------------------
\* The handles of a chain (lib/src/chain/core.rs:50-70, 190-195)
\* ------------------------------------------------------------------------
ChainValues == 1..MaxChainValues

\* Chain::new gives one Chain value behind one Arc.  `strong` is the strong
\* count of the Arc around a value (0: the value does not exist), `dropped`
\* the values whose Drop has run, `exits` the number of exit broadcasts sent,
\* `tasks` the state of the tasks that wait on the exit channel.
HandlesInit ==
    [ strong |-> [ v \in ChainValues |-> IF v = 1 THEN 1 ELSE 0 ],
      dropped |-> {},
      exits |-> 0,
      tasks |-> "running" ]

\* The handles to the chain that are in use.
RECURSIVE InUse(_, _)
InUse(strong, n) == IF n = 0 THEN 0 ELSE strong[n] + InUse(strong, n - 1)

\* impl Drop for Chain (core.rs:190-195): every Chain value that is dropped
\* sends on the exit channel it shares with its clones.
chain_drop(h, v) ==
    [ h EXCEPT !.dropped = @ \cup {v},
               !.exits = @ + 1,
               !.tasks = "exited" ]

\* Arc::clone of a handle.
ArcClone ==
    \E v \in ChainValues :
        /\ handles.strong[v] > 0
        /\ handles.strong[v] < MaxArcs
        /\ handles' = [ handles EXCEPT !.strong[v] = @ + 1 ]
        /\ UNCHANGED not_handles

\* Chain::clone (#[derive(Clone)], core.rs:50): a second Chain value whose
\* fields are clones of the Arcs and of the exit Sender of the first.
ChainClone ==
    \E v \in ChainValues, w \in ChainValues :
        /\ handles.strong[v] > 0
        /\ handles.strong[w] = 0
        /\ w \notin handles.dropped
        /\ \A u \in ChainValues :
              u < w => (handles.strong[u] > 0 \/ u \in handles.dropped)
        /\ handles' = [ handles EXCEPT !.strong[w] = 1 ]
        /\ UNCHANGED not_handles

\* A handle is released; the Chain value is dropped with its last Arc.
ArcDrop ==
    \E v \in ChainValues :
        /\ handles.strong[v] > 0
        /\ LET h == [ handles EXCEPT !.strong[v] = @ - 1 ]
           IN  handles' = IF h.strong[v] = 0 THEN chain_drop(h, v) ELSE h
        /\ UNCHANGED not_handles

\* ------------------------------------------------------------------------
\* A connection (lib/src/comms/hello.rs, router.rs, key_exchange.rs)
\* ------------------------------------------------------------------------
\* KeySize in its derived order.
KeySizeOrder == << "Bit128", "Bit192", "Bit256" >>
KeySizes == Range(KeySizeOrder)

\* The place of a size in the order; it also stands for the length of a key
\* of that size (16, 24 and 32 bytes, encrypt_key.rs:35-45).
KeyLen(size) == CHOOSE i \in 1..Len(KeySizeOrder) : KeySizeOrder[i] = size

\* PartialOrd of KeySize: a < b.
size_lt(a, b) == KeyLen(a) < KeyLen(b)

Versions == { "V1", "V2" }

\* `*self as u16` (hello.rs:22-28, 33-34)
version_u16(v) == IF v = "V1" THEN 1 ELSE 2

\* A min that returns its receiver.
StreamProtocolVersion_min_self(self, other) == self

\* StreamProtocolVersion::min (hello.rs:32-42)
StreamProtocolVersion_min(self, other) ==
    LET first == version_u16(self)
        second == version_u16(other)
        min == Min(first, second)
    IN  IF first = min THEN self ELSE other

\* default_stream_protocol_version (hello.rs:67-69)
default_stream_protocol_version == "V1"

\* The version serde reads from a hello whose field may be missing
\* (#[serde(default = ...)], hello.rs:63-64, 76-77).
parsed_version(field) ==
    IF field = <<>> THEN default_stream_protocol_version ELSE field[1]

\* An upgrade that keeps the certificate's size.
mesh_hello_upgrade_key_own(key1, key2) == IF key1 = <<>> THEN key2 ELSE key1

\* mesh_hello_upgrade_key (hello.rs:190-225)
mesh_hello_upgrade_key(key1, key2) ==
    IF key1 = <<>> /\ key2 = <<>> THEN <<>>
    ELSE IF key1 = <<>> THEN key2
    ELSE IF key2 = <<>> THEN key1
    ELSE IF size_lt(key1[1], key2[1]) THEN key2
    ELSE IF size_lt(key2[1], key1[1]) THEN key1
    ELSE key1

\* A check that lets every offer pass.
encryption_weak_never(needed, offered) == FALSE

\* The validation of the server's offer (hello.rs:109-120).
encryption_weak(needed, offered) ==
    /\ needed # <<>>
    /\ \/ offered = <<>>
       \/ size_lt(offered[1], needed[1])

\* A check that lets every certificate pass.
certificate_check_none(cert, wire_encryption) == "ok"

\* The certificate check of accept_socket (router.rs:215-226).
certificate_check(cert, wire_encryption) ==
    IF wire_encryption = <<>> THEN "ok"
    ELSE IF cert = <<>> THEN "MissingCertificate"
    ELSE IF size_lt(cert[1], wire_encryption[1]) THEN "CertificateTooWeak"
    ELSE "ok"

\* A key is the sequence of its bytes; a byte is 0 or 1 here.
KeysOfSize(size) == [ 1..KeyLen(size) -> { 0, 1 } ]

\* EncryptKey::xor (encrypt_key.rs:320-331): the bytes of ek1, each xor-ed
\* with the byte of ek2 at its place while ek2 has one; the result has the
\* length of ek1.
EncryptKey_xor(ek1, ek2) ==
    [ i \in 1..Len(ek1) |->
        IF i <= Len(ek2) THEN (ek1[i] + ek2[i]) % 2 ELSE ek1[i] ]

\* PublicEncryptKey::encapsulate: a fresh secret of the size of the key and
\* the ciphertext that carries it to the holder of the private key.
encapsulate(pk, secret) == [ iv |-> [ to |-> pk, secret |-> secret ],
                             ek |-> secret ]

\* PrivateEncryptKey::decapsulate (private_encrypt_key.rs:109-139): None for
\* a ciphertext of another length; else Some of the key made from what the
\* ntru decapsulation gives, which is the secret for a ciphertext made for
\* this key and ss, a key the ciphertext does not tell, for any other.
decapsulate_with(sk, iv, ss) ==
    IF iv.to.size # sk.size THEN <<>>
    ELSE IF iv.to = sk THEN << iv.secret >>
    ELSE << ss >>

\* The same, a foreign ciphertext of the right length giving the zero key.
decapsulate(sk, iv) ==
    decapsulate_with(sk, iv, [ i \in 1..KeyLen(sk.size) |-> 0 ])

\* A validation that trusts every certificate.
validate_all(trusted, pk) == TRUE

\* CertificateValidation::validate(&pk2.hash()): the hash is on the list.
validate(trusted, pk) == pk.id \in trusted

\* The version a stream half is made with (stream.rs:433, 819).
InitialVersion == "V1"

\* One end of the connection: its place in the code, the protocol version
\* of its stream halves and the halves whose version has been changed, the
\* HelloMetadata it got, the error it failed
\* with, the two secrets, the shared key and the route it dispatched to;
\* `wrote` and `read` list the messages it has written and read.
EndInit ==
    [ pc |-> "idle", rx |-> InitialVersion, tx |-> InitialVersion,
      switched |-> {}, meta |-> <<>>,
      error |-> "none", detail |-> <<>>, ek1 |-> <<>>, ek2 |-> <<>>,
      key |-> <<>>, route |-> "none", wrote |-> <<>>, read |-> <<>> ]

\* What a connection is made with: the key size the client asks for, the
\* version field of each hello (absent in the hello of an earlier build),
\* the size of the server certificate, whether the request matches a raw
\* route, the certificates the client trusts, whether the server runs this
\* code or only answers the hello with its own size, and the key size the
\* key exchange of the client is called with (none: the negotiated one).
Configs ==
    [ c_key : { <<>> } \cup { << z >> : z \in KeySizes },
      c_ver : { <<>> } \cup { << v >> : v \in Versions },
      s_cert : { <<>> } \cup { << z >> : z \in KeySizes },
      s_ver : { <<>> } \cup { << v >> : v \in Versions },
      raw : BOOLEAN,
      trusted : { {}, { "cert" } },
      this_server : BOOLEAN,
      kex : { <<>> } \cup { << z >> : z \in KeySizes } ]

NoConfig ==
    [ c_key |-> <<>>, c_ver |-> <<>>, s_cert |-> <<>>, s_ver |-> <<>>,
      raw |-> FALSE, trusted |-> {}, this_server |-> TRUE, kex |-> <<>> ]

LinkInit ==
    [ cfg |-> NoConfig, c2s |-> <<>>, s2c |-> <<>>,
      client |-> EndInit, server |-> EndInit ]

\* The end e has failed with an error.
fail(e, error, detail) ==
    [ e EXCEPT !.pc = "failed", !.error = error, !.detail = detail ]

\* change_protocol_version on both halves (hello.rs:124-125, 178-179)
switch(e, version) ==
    [ e EXCEPT !.rx = version, !.tx = version, !.switched = { "rx", "tx" } ]

\* A client connects to a server.
Connect ==
    /\ link.client.pc = "idle"
    /\ \E cfg \in Configs :
          link' = [ link EXCEPT !.cfg = cfg,
                                !.client.pc = "hello",
                                !.server.pc = "accept" ]
    /\ UNCHANGED not_link

\* mesh_hello_exchange_sender, the hello is written (hello.rs:89-101).
ClientHello ==
    /\ link.client.pc = "hello"
    /\ link' = [ link EXCEPT
                   !.c2s = Append(@, [ t |-> "hello",
                                       key_size |-> link.cfg.c_key,
                                       version |-> link.cfg.c_ver ]),
                   !.client.wrote = Append(@, "hello"),
                   !.client.pc = "wait_hello" ]
    /\ UNCHANGED not_link

\* accept_socket hands a request that matches a raw route to that route
\* before any hello (router.rs:173-201).
ServerRaw ==
    /\ link.server.pc = "accept"
    /\ link.cfg.raw
    /\ link' = [ link EXCEPT !.server.pc = "done", !.server.route = "raw" ]
    /\ UNCHANGED not_link

\* mesh_hello_exchange_receiver as called by accept_socket
\* (router.rs:203-213, hello.rs:147-188).
ServerHello ==
    /\ link.server.pc = "accept"
    /\ ~link.cfg.raw
    /\ link.cfg.this_server
    /\ link.c2s # <<>>
    /\ LET hello_client == Head(link.c2s)
           encryption == mesh_hello_upgrade_key(link.cfg.s_cert,
                                                hello_client.key_size)
           version == StreamProtocolVersion_min(
                          parsed_version(link.cfg.s_ver),
                          parsed_version(hello_client.version))
       IN  link' = [ link EXCEPT
                       !.c2s = Tail(@),
                       !.s2c = Append(@, [ t |-> "hello",
                                           encryption |-> encryption,
                                           version |-> link.cfg.s_ver ]),
                       !.server = [ switch(@, version) EXCEPT
                                      !.read = Append(@, "hello"),
                                      !.wrote = Append(@, "hello"),
                                      !.meta = << [ encryption |-> encryption ] >>,
                                      !.pc = "cert_check" ] ]
    /\ UNCHANGED not_link

\* A server that is not this code answers the hello with its own size.
ForeignHello ==
    /\ link.server.pc = "accept"
    /\ ~link.cfg.raw
    /\ ~link.cfg.this_server
    /\ link.c2s # <<>>
    /\ link' = [ link EXCEPT
                   !.c2s = Tail(@),
                   !.s2c = Append(@, [ t |-> "hello",
                                       encryption |-> link.cfg.s_cert,
                                       version |-> link.cfg.s_ver ]),
                   !.server.pc = "foreign" ]
    /\ UNCHANGED not_link

\* accept_socket checks the certificate against the negotiated size
\* (router.rs:215-226) and goes on to the key exchange when it has one
\* (router.rs:229-234).
ServerCertCheck ==
    /\ link.server.pc = "cert_check"
    /\ LET wire_encryption == link.server.meta[1].encryption
           check == certificate_check(link.cfg.s_cert, wire_encryption)
       IN  link' = [ link EXCEPT !.server =
                       IF check # "ok"
                       THEN fail(@, check,
                                 IF check = "CertificateTooWeak"
                                 THEN << wire_encryption[1], link.cfg.s_cert[1] >>
                                 ELSE <<>>)
                       ELSE [ @ EXCEPT !.pc = IF link.cfg.s_cert # <<>>
                                              THEN "kex_pk1" ELSE "route" ] ]
    /\ UNCHANGED not_link

\* The halves of the receiver are merged (key_exchange.rs:98), swapped.
receiver_merge_swapped(ek1, ek2) == EncryptKey_xor(ek2, ek1)

\* The halves of the receiver are merged (key_exchange.rs:98).
receiver_merge(ek1, ek2) == EncryptKey_xor(ek1, ek2)

\* The private key of the server certificate (router.rs:229-231).
server_key == [ id |-> "cert", size |-> link.cfg.s_cert[1] ]

\* The fresh key of the client, of the size its key exchange is called
\* with (key_exchange.rs:16, 21).
client_key ==
    [ id |-> "client",
      size |-> IF link.cfg.kex = <<>>
               THEN link.client.meta[1].encryption[1]
               ELSE link.cfg.kex[1] ]

\* mesh_key_exchange_receiver: pk1 is read, iv1 and pk2 are written
\* (key_exchange.rs:66-85).
ServerKexPk1 ==
    /\ link.server.pc = "kex_pk1"
    /\ link.c2s # <<>>
    /\ Head(link.c2s).t = "pk1"
    /\ \E secret \in KeysOfSize(Head(link.c2s).pk.size) :
          LET e == encapsulate(Head(link.c2s).pk, secret)
          IN  link' = [ link EXCEPT
                          !.c2s = Tail(@),
                          !.s2c = @ \o << [ t |-> "iv1", iv |-> e.iv ],
                                          [ t |-> "pk2", pk |-> server_key ] >>,
                          !.server.ek1 = << e.ek >>,
                          !.server.read = Append(@, "pk1"),
                          !.server.wrote = @ \o << "iv1", "pk2" >>,
                          !.server.pc = "kex_iv2" ]
    /\ UNCHANGED not_link

\* mesh_key_exchange_receiver: iv2 is read and the halves are merged
\* (key_exchange.rs:87-98).
ServerKexIv2 ==
    /\ link.server.pc = "kex_iv2"
    /\ link.c2s # <<>>
    /\ Head(link.c2s).t = "iv2"
    /\ LET ek2 == decapsulate(server_key, Head(link.c2s).iv)
       IN  link' = [ link EXCEPT
                       !.c2s = Tail(@),
                       !.server =
                          IF ek2 = <<>>
                          THEN fail([ @ EXCEPT !.read = Append(@, "iv2") ],
                                    "ReceiveError", <<>>)
                          ELSE [ @ EXCEPT
                                   !.read = Append(@, "iv2"),
                                   !.ek2 = ek2,
                                   !.key = << receiver_merge(link.server.ek1[1], ek2[1]) >>,
                                   !.pc = "route" ] ]
    /\ UNCHANGED not_link

\* accept_socket dispatches the connection to its route (router.rs:235-266).
ServerRoute ==
    /\ link.server.pc = "route"
    /\ link' = [ link EXCEPT !.server.pc = "done",
                              !.server.route = "dispatched" ]
    /\ UNCHANGED not_link

\* mesh_hello_exchange_sender, the hello of the server is read
\* (hello.rs:103-144).
ClientRecvHello ==
    /\ link.client.pc = "wait_hello"
    /\ link.s2c # <<>>
    /\ LET hello_server == Head(link.s2c)
           version == StreamProtocolVersion_min(
                          parsed_version(hello_server.version),
                          parsed_version(link.cfg.c_ver))
       IN  link' = [ link EXCEPT
                       !.s2c = Tail(@),
                       !.client =
                          IF encryption_weak(link.cfg.c_key,
                                             hello_server.encryption)
                          THEN fail([ @ EXCEPT !.read = Append(@, "hello") ],
                                    "ServerEncryptionWeak", <<>>)
                          ELSE [ switch(@, version) EXCEPT
                                   !.read = Append(@, "hello"),
                                   !.meta = << [ encryption |->
                                                   hello_server.encryption ] >>,
                                   !.pc = IF hello_server.encryption # <<>>
                                          THEN "kex_pk1" ELSE "ready" ] ]
    /\ UNCHANGED not_link

\* mesh_key_exchange_sender: a fresh key of the negotiated size, pk1 is
\* written (key_exchange.rs:20-27).
ClientKexPk1 ==
    /\ link.client.pc = "kex_pk1"
    /\ link' = [ link EXCEPT
                   !.c2s = Append(@, [ t |-> "pk1", pk |-> client_key ]),
                   !.client.wrote = Append(@, "pk1"),
                   !.client.pc = "kex_iv1" ]
    /\ UNCHANGED not_link

\* mesh_key_exchange_sender: iv1 is read (key_exchange.rs:29-35).
ClientKexIv1 ==
    /\ link.client.pc = "kex_iv1"
    /\ link.s2c # <<>>
    /\ Head(link.s2c).t = "iv1"
    /\ LET ek1 == decapsulate(client_key, Head(link.s2c).iv)
       IN  link' = [ link EXCEPT
                       !.s2c = Tail(@),
                       !.client =
                          IF ek1 = <<>>
                          THEN fail([ @ EXCEPT !.read = Append(@, "iv1") ],
                                    "ReceiveError", <<>>)
                          ELSE [ @ EXCEPT !.read = Append(@, "iv1"),
                                          !.ek1 = ek1,
                                          !.pc = "kex_pk2" ] ]
    /\ UNCHANGED not_link

\* mesh_key_exchange_sender: pk2 is read and validated; iv2 is written and
\* the halves are merged (key_exchange.rs:38-58).
ClientKexPk2 ==
    /\ link.client.pc = "kex_pk2"
    /\ link.s2c # <<>>
    /\ Head(link.s2c).t = "pk2"
    /\ LET pk2 == Head(link.s2c).pk
       IN  IF ~validate(link.cfg.trusted, pk2)
           THEN link' = [ link EXCEPT
                            !.s2c = Tail(@),
                            !.client = fail([ @ EXCEPT !.read = Append(@, "pk2") ],
                                            "ServerCertificateValidation", <<>>) ]
           ELSE \E secret \in KeysOfSize(pk2.size) :
                   LET e == encapsulate(pk2, secret)
                   IN  link' = [ link EXCEPT
                                   !.s2c = Tail(@),
                                   !.c2s = Append(@, [ t |-> "iv2", iv |-> e.iv ]),
                                   !.client.read = Append(@, "pk2"),
                                   !.client.wrote = Append(@, "iv2"),
                                   !.client.ek2 = << e.ek >>,
                                   !.client.key =
                                      << EncryptKey_xor(link.client.ek1[1], e.ek) >>,
                                   !.client.pc = "ready" ]
    /\ UNCHANGED not_link

\* ------------------------------------------------------------------------
\* Key operations (lib/src/crypto/encrypt_key.rs,
\* crypto/src/crypto/private_encrypt_key.rs)
\* ------------------------------------------------------------------------
\* The keys of the three sizes.
AllKeys == UNION { KeysOfSize(size) : size \in KeySizes }

\* The key pairs: two of every size.
KemKeys == [ id : { "client", "cert" }, size : KeySizes ]

CryptoInit == [ op |-> "none", args |-> <<>>, out |-> <<>> ]

\* EncryptKey::xor is applied to three keys, in both orders and both
\* groupings.
XorKeys ==
    /\ crypto.op = "none"
    /\ \E a \in AllKeys, b \in AllKeys, c \in AllKeys :
          crypto' = [ op |-> "xor",
                      args |-> << a, b, c >>,
                      out |-> [ ab |-> EncryptKey_xor(a, b),
                                ba |-> EncryptKey_xor(b, a),
                                ab_c |-> EncryptKey_xor(EncryptKey_xor(a, b), c),
                                a_bc |-> EncryptKey_xor(a, EncryptKey_xor(b, c)) ] ]
    /\ UNCHANGED not_crypto

\* A secret is encapsulated to the public key of pk and the ciphertext is
\* decapsulated with the private key sk.
Kem ==
    /\ crypto.op = "none"
    /\ \E pk \in KemKeys, sk \in KemKeys :
          \E secret \in KeysOfSize(pk.size), ss \in KeysOfSize(sk.size) :
             LET e == encapsulate(pk, secret)
             IN  crypto' = [ op |-> "kem",
                             args |-> << pk, sk >>,
                             out |-> [ ek |-> e.ek,
                                       got |-> decapsulate_with(sk, e.iv, ss) ] ]
    /\ UNCHANGED not_crypto

\* ------------------------------------------------------------------------
\* Service dispatch (lib/src/service/service_hook.rs)
\* ------------------------------------------------------------------------
Hooks == 1..NumHooks
Requests == 1..NumRequests

\* handler.request_type_name(), response_type_name(), error_type_name()
RequestType == "Request"
ResponseType == "Response"
ErrorType == "Error"

\* The write set of a DioMut: the rows it deleted and the rows it stored,
\* and the keys it locked.
EmptyDio == [ locked |-> {}, deleted |-> {}, rows |-> <<>> ]

\* DioMut::cancel: the buffered writes are dropped; a lock stays until it
\* is released by an unlock, a commit or the end of the session.
dio_cancel(dio) == [ dio EXCEPT !.deleted = {}, !.rows = <<>> ]

\* ServiceHook::filter (service_hook.rs:47-52)
filter(evt) == evt.type_name = RequestType

\* A hook that goes on whether or not it got the lock.
proceeds_always(is_locked) == TRUE

\* notify goes on only with the lock (service_hook.rs:73-76).
proceeds(is_locked) == is_locked

\* ServiceHook::send_reply (service_hook.rs:133-179): the reply row.
send_reply(dio, req, res_type) ==
    [ dio EXCEPT !.rows = Append(@,
          [ parent |-> << req >>,
            extra_meta |-> << << "Type", res_type >>, << "Reply", req >> >> ]) ]

\* rows: the rows of the chain; log: the transactions committed to it;
\* hook: where each hook is in notify; notified: the (hook, key) pairs the
\* dispatcher has called notify for; invoked: the calls of the handler;
\* skipped: the (hook, key) pairs that were refused the lock.
ServiceInit ==
    [ rows |-> [ k \in Requests |-> <<>> ],
      locks |-> {},
      log |-> <<>>,
      hook |-> [ h \in Hooks |-> [ pc |-> "idle", key |-> 0, dio |-> EmptyDio,
                                   ret |-> "none" ] ],
      notified |-> {},
      invoked |-> <<>>,
      skipped |-> {} ]

\* ------------------------------------------------------------------------
\* Chain URLs (lib/src/comms/stream.rs)
\* ------------------------------------------------------------------------
StreamProtocols == { "Tcp", "WebSocket", "SecureWebSocket" }

\* StreamProtocol::to_scheme (stream.rs:76-83)
to_scheme(p) ==
    IF p = "Tcp" THEN "tcp" ELSE IF p = "WebSocket" THEN "ws" ELSE "wss"

\* StreamProtocol::default_port (stream.rs:89-95)
default_port(p) ==
    IF p = "Tcp" THEN 5000 ELSE IF p = "WebSocket" THEN 80 ELSE 443

\* StreamProtocol::from_str (stream.rs:62-72), for the three schemes.
from_str(scheme) == CHOOSE p \in StreamProtocols : to_scheme(p) = scheme

\* The ports, domains and paths a URL is made with: the three default
\* ports and others; a path with and without its leading slash.
Ports == { 80, 443, 5000, 8080, 4001, 5001 }
Domains == { "localhost", "tokera.com" }
Paths == [ slash : BOOLEAN, name : { "test-chain", "db" } ]

\* starts_with("/")
starts_with_slash(path) == path.slash

\* The text of a path.
path_text(path) ==
    IF path.slash THEN << "/", path.name >> ELSE << path.name >>

\* The text make_url formats (stream.rs:157-166), in pieces: with the port
\* when the port is the default port of the protocol, without it otherwise.
make_url_input(p, domain, port, path) ==
    LET scheme == to_scheme(p)
    IN  IF port = default_port(p)
        THEN IF starts_with_slash(path)
             THEN << scheme, "://", domain, ":", port >> \o path_text(path)
             ELSE << scheme, "://", domain, ":", port, "/" >> \o path_text(path)
        ELSE IF starts_with_slash(path)
             THEN << scheme, "://", domain >> \o path_text(path)
             ELSE << scheme, "://", domain, "/" >> \o path_text(path)

\* The default port the URL parser knows for a scheme, if any.
known_default(scheme) ==
    IF scheme = "ws" THEN << 80 >>
    ELSE IF scheme = "wss" THEN << 443 >> ELSE <<>>

\* url::Url::parse of such a text: scheme, host, the port if one is given
\* and is not the default the parser knows for the scheme, and the path.
Url_parse(input) ==
    LET scheme == input[1]
        given == IF input[4] = ":" THEN << input[5] >> ELSE <<>>
        rest == IF input[4] = ":" THEN SubSeq(input, 6, Len(input))
                ELSE SubSeq(input, 4, Len(input))
    IN  [ scheme |-> scheme,
          host |-> input[3],
          port |-> IF given = known_default(scheme) THEN <<>> ELSE given,
          path |-> rest ]

\* StreamProtocol::make_url (stream.rs:150-168)
make_url(p, domain, port, path) ==
    Url_parse(make_url_input(p, domain, port, path))

\* The port a URL stands for: its explicit port, or the default port of
\* the protocol of its scheme.
effective_port(u) ==
    IF u.port # <<>> THEN u.port[1] ELSE default_port(from_str(u.scheme))

UrlInit == [ op |-> "none", args |-> <<>>, out |-> <<>> ]

\* A chain URL is made.
MakeUrl ==
    /\ url.op = "none"
    /\ \E p \in StreamProtocols, domain \in Domains, port \in Ports,
          path \in Paths :
          url' = [ op |-> "make_url",
                   args |-> [ protocol |-> p, domain |-> domain,
                              port |-> port, path |-> path ],
                   out |-> make_url(p, domain, port, path) ]
    /\ UNCHANGED not_url

\* ------------------------------------------------------------------------
\* Stream routes (lib/src/comms/router.rs)
\* ------------------------------------------------------------------------
\* Paths, as the sequences of their pieces: the paths routes are registered
\* under and the paths a hello carries.
RoutePaths == { << "/" >>, << "/", "a" >>, << "/", "a", "/", "b" >>,
                << "/", "c" >> }
HelloPaths == { << "/" >>, << "/", "a" >>, << "/", "a", "/", "b" >>,
                << "/", "c", "/", "d" >>, << "x" >> }

\* str::starts_with
starts_with(path, test) ==
    /\ Len(test) <= Len(path)
    /\ SubSeq(path, 1, Len(test)) = test

\* StreamRouter::new (router.rs:100-112): no routes, no default route,
\* nothing dispatched yet.
RouterInit == [ routes |-> {}, default_route |-> FALSE, accepted |-> <<>> ]

\* add_socket_route (router.rs:118-121): the map gets an entry for the path.
AddSocketRoute ==
    /\ \E path \in RoutePaths :
          router' = [ router EXCEPT !.routes = @ \cup { path } ]
    /\ UNCHANGED not_router

\* set_default_route (router.rs:114-116)
SetDefaultRoute ==
    /\ router' = [ router EXCEPT !.default_route = TRUE ]
    /\ UNCHANGED not_router

\* The end of accept_socket (router.rs:242-273): the entries of the hash
\* map are visited in the order of its iterator, which no registration
\* order and no path length decides, and the first entry whose path the
\* hello path starts with takes the connection; then the default route;
\* then nothing.
AcceptSocket ==
    /\ \E path \in HelloPaths :
          \/ \E test \in router.routes :
                /\ starts_with(path, test)
                /\ router' = [ router EXCEPT !.accepted =
                      << [ path |-> path, to |-> << "route", test >> ] >> ]
          \/ /\ \A test \in router.routes : ~starts_with(path, test)
             /\ router' = [ router EXCEPT !.accepted =
                   << [ path |-> path,
                        to |-> IF router.default_route THEN << "default" >>
                               ELSE <<>> ] >> ]
    /\ UNCHANGED not_router

\* ------------------------------------------------------------------------
\* The inbox loop (lib/src/comms/helper.rs)
\* ------------------------------------------------------------------------
\* The hiccups the loop puts up with (helper.rs:224).
HickupLimit == 10

\* StreamProtocol::is_web_socket (stream.rs:105-111)
is_web_socket(p) == p # "Tcp"

\* What inbox.process(pck) returns: Ok or one of the errors the loop tells
\* apart (helper.rs:214-294); "Other" is any other error.
ProcessResults ==
    { "Ok", "Disconnected", "BrokenPipe", "UnexpectedEof",
      "ConnectionAborted", "ConnectionReset", "ReadOnly", "NotYetSubscribed",
      "CertificateTooWeak", "MissingCertificate",
      "ServerCertificateValidation", "ServerEncryptionWeak", "FatalError",
      "SendError", "ValidationError", "Other" }

\* A loop that also goes on after the errors that say the peer may not go on.
Continues_lenient ==
    { "ReadOnly", "ValidationError", "Other", "NotYetSubscribed",
      "FatalError" }

\* The errors after which the loop goes on with the next packet
\* (helper.rs:243, 272-293).
Continues == { "ReadOnly", "ValidationError", "Other" }

\* The ways the loop leaves before a packet is processed: the exit
\* broadcast (helper.rs:179-182), an error of the read (helper.rs:142, 151,
\* 165), a frame of length zero (helper.rs:145, 154, 168) and an error of
\* the deserializer (helper.rs:195).
Exits == { "exit", "ReadError", "ZeroLength", "DeserializeError" }

\* A loop for which the exit broadcast is an error.
loop_ret_strict(result) ==
    IF result \in Exits THEN "Err" ELSE "Ok"

\* What the async block gives: the errors of `?` leave it with Err, every
\* break leaves it with Ok(()) (helper.rs:181, 185, 195, 296).
loop_ret(result) ==
    IF result \in Exits \ { "exit" } THEN "Err" ELSE "Ok"

\* A loop that puts up with hiccups on every carrier.
tolerates_any_carrier(protocol, hickup_count) == hickup_count < HickupLimit

\* The guard of the BrokenPipe arm (helper.rs:224).
tolerates(protocol, hickup_count) ==
    is_web_socket(protocol) /\ hickup_count < HickupLimit

\* process_inbox before it is called.  pc: "idle", "running", "closed";
\* hickup_count: the local of helper.rs:77; last: the result of the last
\* inbox.process; pipes: the BrokenPipe results since the last Ok;
\* shutdown: the calls of inbox.shutdown (helper.rs:299); ret: what
\* process_inbox returned (helper.rs:300).
LoopInit ==
    [ pc |-> "idle", protocol |-> "Tcp", hickup_count |-> 0, last |-> "none",
      pipes |-> 0, shutdown |-> 0, ret |-> "none" ]

\* process_inbox is called with the receiving end of a connection
\* (helper.rs:55-77).
InboxStart ==
    /\ loop.pc = "idle"
    /\ \E p \in StreamProtocols :
          loop' = [ loop EXCEPT !.pc = "running", !.protocol = p,
                                !.hickup_count = 0 ]
    /\ UNCHANGED not_loop

\* A function whose `?` leaves before the shutdown hook.
loop_close_early(l, result) ==
    [ l EXCEPT !.pc = "closed", !.last = result,
               !.shutdown = IF loop_ret(result) = "Err" THEN @ ELSE @ + 1,
               !.ret = loop_ret(result) ]

\* The loop leaves: break or an error of the read; inbox.shutdown is called
\* and the result of the block is returned (helper.rs:296-300).
loop_close(l, result) ==
    [ l EXCEPT !.pc = "closed", !.last = result, !.shutdown = @ + 1,
               !.ret = loop_ret(result) ]

\* One packet is read and processed (helper.rs:212-294).
InboxProcess ==
    /\ loop.pc = "running"
    /\ \E result \in ProcessResults :
          loop' =
            IF result = "Ok"
            THEN [ loop EXCEPT !.hickup_count = 0, !.last = result,
                               !.pipes = 0 ]
            ELSE IF result = "BrokenPipe"
            THEN IF tolerates(loop.protocol, loop.hickup_count)
                 THEN [ loop EXCEPT !.hickup_count = @ + 1, !.last = result,
                                    !.pipes = @ + 1 ]
                 ELSE [ loop_close(loop, result) EXCEPT !.pipes = @ + 1 ]
            ELSE IF result \in Continues
            THEN [ loop EXCEPT !.last = result ]
            ELSE loop_close(loop, result)
    /\ UNCHANGED not_loop

\* The exit broadcast, or an error of the read or of the deserializer
\* (helper.rs:177-195): the loop leaves without processing a packet.
InboxExit ==
    /\ loop.pc = "running"
    /\ \E result \in Exits :
          loop' = loop_close(loop, result)
    /\ UNCHANGED not_loop

\* ------------------------------------------------------------------------
\* inbox_event, statement by statement (root.rs:241-284)
\* ------------------------------------------------------------------------
\* A handler that keeps the guard until it returns.
drop_single_late(single) == single

\* drop(single) (root.rs:261): the writer lock of the chain is free.
drop_single(single) == <<>>

\* The guard of chain.single() leaves scope when the handler returns.
handler_return(single) ==
    IF single = << "inbox" >> THEN <<>> ELSE single

\* queue: the Events packets of each session that wait in the receiver of
\* the inbox task; pc: where the task is in inbox_event; cur: the session
\* whose packet it handles; commit, valid: the packet has a commit id, its
\* events pass the feed; single: who holds the writer lock of the chain;
\* local: a writer on the server itself; fed: the feeds applied, in order;
\* posted: the packets sent so far.
WriterInit ==
    [ queue |-> [ s \in 1..NumSessions |-> 0 ],
      pc |-> "idle", cur |-> 0, commit |-> FALSE, valid |-> FALSE,
      single |-> <<>>, local |-> "idle", fed |-> <<>>, posted |-> 0 ]

\* ------------------------------------------------------------------------
\* Tx::replace_group (lib/src/comms/rx_tx.rs)
\* ------------------------------------------------------------------------
TxGroups == 1..NumGroups
TxIds == 1..NumTx

\* all: the members of each TxGroup (the keys of TxGroup::all); group: the
\* group each TxGroupSpecific points to; pc, new, old: where each connection
\* is in replace_group, the group it was called with and the group
\* std::mem::replace gave back.  Every connection starts as a member of the
\* group it points to.
TxgInit ==
    [ all |-> [ g \in TxGroups |-> IF g = 1 THEN TxIds ELSE {} ],
      group |-> [ c \in TxIds |-> 1 ],
      pc |-> [ c \in TxIds |-> "idle" ],
      new |-> [ c \in TxIds |-> 1 ],
      old |-> [ c \in TxIds |-> 1 ] ]

\* ------------------------------------------------------------------------
\* Chain::shutdown (lib/src/chain/core.rs:151-187)
\* ------------------------------------------------------------------------
Closers == 1..NumClosers

BackupModes == { "None", "Restore", "Rotating", "Full" }

\* The modes in which shutdown goes on to the backup (core.rs:152-161).
backs_up(mode) == mode \in { "Rotating", "Full" }

\* include_active_files (core.rs:159-160)
include_active_files(mode) == mode = "Full"

\* A shutdown that does not look at the flag.
we_are_the_one_always(is_shutdown) == TRUE

\* we_are_the_one (core.rs:164)
we_are_the_one(is_shutdown) == is_shutdown = FALSE

\* A chain that is not configured yet.  mode, compact: cfg_ate.backup_mode
\* and whether shutdown compacts (core.rs:181); is_shutdown: the flag of
\* inside_async; single: the task that holds the writer lock; pc, ret: where
\* each task is in shutdown and what its last call returned; backups: the
\* include_active_files of each backup started; compacts, calls: the
\* compactions and the calls so far.
ClosingInit ==
    [ mode |-> "unset", compact |-> FALSE, is_shutdown |-> FALSE,
      single |-> <<>>,
      pc |-> [ c \in Closers |-> "idle" ],
      ret |-> [ c \in Closers |-> "none" ],
      backups |-> <<>>, compacts |-> 0, calls |-> 0 ]

\* ------------------------------------------------------------------------
\* The throttle of the inbox loop (lib/src/comms/helper.rs:86-137)
\* ------------------------------------------------------------------------
\* The limits of a Throttle (None, or bytes per second), the bytes counted
\* since the last computation and the milliseconds since then, which are
\* more than the throttle interval of 50 ms (helper.rs:73, 89).
Limits == { <<>>, << 0 >>, << 1000 >>, << 4000 >> }
ByteDeltas == { 0, 300, 900 }
Elapsed == { 100, 200 }

\* One direction (helper.rs:111-118): no wait without a limit or when the
\* rate is not above it; otherwise ((rate - limit) * 1000) / limit
\* milliseconds, an integer division that panics when the limit is 0.
direction_wait(limit, rate) ==
    IF limit = <<>> \/ ~(rate > limit[1])
    THEN [ panic |-> FALSE, wait |-> <<>> ]
    ELSE IF limit[1] = 0
    THEN [ panic |-> TRUE, wait |-> <<>> ]
    ELSE [ panic |-> FALSE,
           wait |-> << ((rate - limit[1]) * 1000) \div limit[1] >> ]

\* The match on (wait1, wait2) (helper.rs:121-127).
longer_wait(wait1, wait2) ==
    IF wait1 # <<>> /\ wait2 # <<>>
    THEN IF wait1[1] >= wait2[1] THEN wait1 ELSE wait2
    ELSE IF wait1 # <<>> THEN wait1
    ELSE wait2

\* The wait of one round (helper.rs:93-128): the byte deltas are scaled to
\* a second, the download limit is held against the bytes sent and the
\* upload limit against the bytes received.
wait_time(t, bytes_received, bytes_sent, ms) ==
    LET delta_received == (bytes_received * 1000) \div ms
        delta_sent == (bytes_sent * 1000) \div ms
        wait1 == direction_wait(t.download_per_second, delta_sent)
        wait2 == direction_wait(t.upload_per_second, delta_received)
    IN  IF wait1.panic \/ wait2.panic
        THEN [ panic |-> TRUE, wait |-> <<>> ]
        ELSE [ panic |-> FALSE, wait |-> longer_wait(wait1.wait, wait2.wait) ]

ThrottleInit == [ op |-> "none", args |-> <<>>, out |-> <<>> ]

\* The loop computes the wait before it reads the next frame.
ThrottleWait ==
    /\ throttle.op = "none"
    /\ \E d \in Limits, u \in Limits, bytes_received \in ByteDeltas,
          bytes_sent \in ByteDeltas, ms \in Elapsed :
          LET t == [ download_per_second |-> d, upload_per_second |-> u ]
          IN  throttle' = [ op |-> "wait_time",
                            args |-> [ throttle |-> t,
                                       received |-> bytes_received,
                                       sent |-> bytes_sent, ms |-> ms ],
                            out |-> wait_time(t, bytes_received, bytes_sent,
                                              ms) ]
    /\ UNCHANGED not_throttle

LibInit ==
    /\ indexer = IndexerInit
    /\ opening = OpeningInit
    /\ handles = HandlesInit
    /\ link = LinkInit
    /\ crypto = CryptoInit
    /\ service = ServiceInit
    /\ url = UrlInit
    /\ router = RouterInit
    /\ loop = LoopInit
    /\ writer = WriterInit
    /\ txg = TxgInit
    /\ closing = ClosingInit
    /\ throttle = ThrottleInit

\* ------------------------------------------------------------------------
\* Initial state
\* ------------------------------------------------------------------------
Init ==
    /\ chains = {}
    /\ context = [ s \in Sessions |-> DefaultContext ]
    /\ conn = [ s \in Sessions |-> "open" ]
    /\ locks = {}
    /\ history = <<>>
    /\ nextHash = 1
    /\ inbox = [ s \in Sessions |-> <<>> ]
    /\ outbox = [ s \in Sessions |-> <<>> ]
    /\ root_pc = Idle
    /\ group = {}
    /\ sent = [ s \in Sessions |-> 0 ]
    /\ call = [ s \in Sessions |-> NoCall ]
    /\ holders = [ k \in Keys |-> {} ]
    /\ confirmed = {}
    /\ openedWith = [ s \in Sessions |-> {} ]
    /\ fedEvents = [ s \in Sessions |-> {} ]
    /\ rejected = {}
    /\ LibInit

\* A root that starts over a redo-log which already holds events: the chain
\* loads them when it is opened.
InitLoaded ==
    /\ chains = {}
    /\ context = [ s \in Sessions |-> DefaultContext ]
    /\ conn = [ s \in Sessions |-> "open" ]
    /\ locks = {}
    /\ \E n \in 0..MaxInitHistory :
          /\ history = [ i \in 1..n |-> i ]
          /\ nextHash = n + 1
    /\ inbox = [ s \in Sessions |-> <<>> ]
    /\ outbox = [ s \in Sessions |-> <<>> ]
    /\ root_pc = Idle
    /\ group = {}
    /\ sent = [ s \in Sessions |-> 0 ]
    /\ call = [ s \in Sessions |-> NoCall ]
    /\ holders = [ k \in Keys |-> {} ]
    /\ confirmed = {}
    /\ openedWith = [ s \in Sessions |-> {} ]
    /\ fedEvents = [ s \in Sessions |-> {} ]
    /\ rejected = {}
    /\ LibInit

\* ------------------------------------------------------------------------
\* The chain: lock set of the pipe, history, history_reverse
\* ------------------------------------------------------------------------

\* EventPipe::try_lock on the chain's pipe: true iff the key was free; the
\* key is in the lock set afterwards.
try_lock(lockset, key) ==
    [ is_locked |-> key \notin lockset, locks |-> lockset \cup {key} ]

\* EventPipe::unlock on the chain's pipe: the key leaves the lock set.
unlock(lockset, key) == lockset \ {key}

\* chain.history_reverse.get(hash): the offset of the event with that hash.
history_reverse(h) ==
    IF h \in Range(history)
    THEN << CHOOSE o \in 1..Len(history) : history[o] = h >>
    ELSE <<>>

\* ChainSingleUser::feed_async: a transaction is accepted when every event of
\* it passes validation, and then all its events are appended in order; a
\* rejected transaction appends nothing.
feed_async(log, evts, valid) ==
    IF valid THEN [ ok |-> TRUE, log |-> log \o evts ]
             ELSE [ ok |-> FALSE, log |-> log ]

\* MeshRoot::open_internal (root.rs:372-390): an existing chain is reused; a
\* chain is constructed only when the lookup names this root.
\* An open that takes every chain for one of this root.
open_internal_any(key) == [ ok |-> TRUE, chains |-> chains \cup {key} ]

\* MeshRoot::open_internal (root.rs:372-390).
open_internal(key) ==
    IF key \in chains THEN [ ok |-> TRUE, chains |-> chains ]
    ELSE IF key = OwnedChain THEN [ ok |-> TRUE, chains |-> chains \cup {key} ]
    ELSE [ ok |-> FALSE, chains |-> chains ]

\* A send whose skip test is inverted: only the member to skip is sent to.
TxGroup_send_inverted(out, msg, skip) ==
    [ m \in Sessions |->
        IF m \in group /\ conn[m] = "open" /\ << m >> = skip
        THEN Append(out[m], msg) ELSE out[m] ]

\* A send that gives up at the first member it cannot send to (`?` on the
\* result of tx.outbox.send).
TxGroup_send_abort(out, msg, skip) ==
    [ m \in Sessions |->
        IF /\ m \in group /\ conn[m] = "open" /\ << m >> # skip
           /\ \A j \in group : (j < m /\ << j >> # skip) => conn[j] = "open"
        THEN Append(out[m], msg) ELSE out[m] ]

\* TxGroup::send(pck, skip) (rx_tx.rs:269-285): every member whose connection
\* is still alive gets the packet, except the one to skip.
TxGroup_send(out, msg, skip) ==
    [ m \in Sessions |->
        IF m \in group /\ conn[m] = "open" /\ <<m>> # skip
        THEN Append(out[m], msg) ELSE out[m] ]

\* ------------------------------------------------------------------------
\* Client side: what a connection puts on the wire
\* ------------------------------------------------------------------------
\* Connections are numbered in the order of their first packet.
CanSend(s) ==
    /\ conn[s] = "open"
    /\ IF s = 1 THEN TRUE ELSE sent[s - 1] > 0
    /\ Len(inbox[s]) < MaxInflight
    /\ call[s].result # "pending"

Post(s, pkt) ==
    /\ inbox' = [ inbox EXCEPT ![s] = Append(@, pkt) ]
    /\ sent' = [ sent EXCEPT ![s] = @ + 1 ]

\* The hashes a client can put in its history_sample.
SampleHashes == (Range(history) \cap 1..MaxSampleHash) \cup {UnknownHash}

Samples ==
    { <<>> } \cup { <<a>> : a \in SampleHashes }
             \cup { p \in { <<a, b>> : a \in SampleHashes, b \in SampleHashes } :
                        p[1] # p[2] }

\* A client opens a chain: Message::Subscribe { chain_key, history_sample }.
ClientSubscribe(s, chain_key, sample) ==
    /\ CanSend(s)
    /\ Post(s, [ t |-> "Subscribe", seq |-> sent[s] + 1,
                 chain_key |-> chain_key, history_sample |-> sample ])
    /\ openedWith' = [ openedWith EXCEPT ![s] = confirmed ]
    /\ UNCHANGED << chains, context, conn, locks, history, nextHash, outbox,
                    root_pc, group, call, holders, confirmed, fedEvents,
                    rejected,
                    lib_vars >>

\* A client with an empty local chain opens a chain.
SubscribeFresh == \E s \in Sessions : ClientSubscribe(s, OwnedChain, <<>>)

\* A client asks this root for a chain that another root owns.
SubscribeForeign == \E s \in Sessions : ClientSubscribe(s, ForeignChain, <<>>)

\* A client that already holds part of the history opens the chain.
SubscribeSample ==
    \E s \in Sessions, sample \in Samples \ { <<>> } :
        /\ ClientSubscribe(s, OwnedChain, sample)

\* Message::Lock { key }
ClientLock ==
    \E s \in Sessions, k \in Keys :
        /\ CanSend(s)
        /\ Post(s, [ t |-> "Lock", seq |-> sent[s] + 1, key |-> k ])
        /\ UNCHANGED << chains, context, conn, locks, history, nextHash,
                        outbox, root_pc, group, call, holders, confirmed,
                        openedWith, fedEvents, rejected,
                        lib_vars >>

\* Message::Unlock { key }
ClientUnlock ==
    \E s \in Sessions, k \in Keys :
        /\ CanSend(s)
        /\ Post(s, [ t |-> "Unlock", seq |-> sent[s] + 1, key |-> k ])
        /\ UNCHANGED << chains, context, conn, locks, history, nextHash,
                        outbox, root_pc, group, call, holders, confirmed,
                        openedWith, fedEvents, rejected,
                        lib_vars >>

\* TransactionScope (spec 4.4): only a Full commit waits for the peers.
Scopes == { "None", "Local", "Full" }

\* The Events message the client pipe sends for a transaction: it carries a
\* commit id, and the caller waits for the reply to it, iff the scope is Full.
pipe_feed(s, trans, valid, kind) ==
    LET id == sent[s] + 1
        commit == IF trans.scope = "Full" THEN << id >> ELSE <<>>
    IN  /\ Post(s, [ t |-> "Events", seq |-> id, commit |-> commit,
                     evts |-> trans.events, valid |-> valid, kind |-> kind ])
        /\ call' = [ call EXCEPT ![s] =
                       [ kind |-> kind, id |-> commit, seq |-> id,
                         prior |-> fedEvents[s],
                         result |-> IF trans.scope = "Full"
                                    THEN "pending" ELSE "Ok" ] ]

\* DioMut::commit: the buffered mutations become one transaction of new
\* events; whether the chain will accept them is not known to the client.
ClientCommit ==
    \E s \in Sessions, scope \in Scopes, n \in 1..MaxTxEvents, valid \in BOOLEAN :
        /\ CanSend(s)
        /\ nextHash + n - 1 <= MaxEvents
        /\ pipe_feed(s, [ scope |-> scope,
                          events |-> [ i \in 1..n |-> nextHash + i - 1 ] ],
                     valid, "commit")
        /\ nextHash' = nextHash + n
        /\ fedEvents' = [ fedEvents EXCEPT ![s] =
                            @ \cup (nextHash .. nextHash + n - 1) ]
        /\ UNCHANGED << chains, context, conn, locks, history, outbox,
                        root_pc, group, holders, confirmed, openedWith,
                        rejected,
                        lib_vars >>

\* A sync whose transaction nobody waits for.
sync_trans_none == [ scope |-> "None", events |-> <<>> ]

\* The transaction of Chain::sync_ext (core.rs:120-128).
sync_trans == [ scope |-> "Full", events |-> <<>> ]

\* Chain::sync_ext (core.rs:120-136): feed one transaction and wait for it.
ClientSync ==
    \E s \in Sessions :
        /\ CanSend(s)
        /\ pipe_feed(s, sync_trans, TRUE, "sync")
        /\ UNCHANGED << chains, context, conn, locks, history, nextHash,
                        outbox, root_pc, group, holders, confirmed,
                        openedWith, fedEvents, rejected,
                        lib_vars >>

\* The timeout of a waiting transaction fires: the call returns an error.
\* (core.rs:132: the `?` hands the CommitError of the pipe to the caller)
Timeout ==
    \E s \in Sessions :
        /\ call[s].result = "pending"
        /\ call' = [ call EXCEPT ![s].result = "Err" ]
        /\ UNCHANGED << chains, context, conn, locks, history, nextHash,
                        inbox, outbox, root_pc, group, sent, holders,
                        confirmed, openedWith, fedEvents, rejected,
                        lib_vars >>

\* The reply to a waiting call reaches the client.
returned(c, s, id, result) ==
    [ c EXCEPT ![s] = IF @.result = "pending" /\ @.id = << id >>
                      THEN [ @ EXCEPT !.result = result ] ELSE @ ]

\* The connection ends: the last reference to its SessionContext goes away
\* once no packet of it is left, and Drop (root.rs:56-69) spawns the hook
\* when the context knows its root.
Drop ==
    \E s \in Sessions :
        /\ conn[s] = "open"
        /\ inbox[s] = <<>>
        /\ ~(root_pc.state = "replay" /\ root_pc.session = s)
        /\ conn' = [ conn EXCEPT ![s] =
                       IF context[s].root THEN "dropped" ELSE "closed" ]
        /\ holders' = [ k \in Keys |-> holders[k] \ {s} ]
        /\ UNCHANGED << chains, context, locks, history, nextHash, inbox,
                        outbox, root_pc, group, sent, call, confirmed,
                        openedWith, fedEvents, rejected,
                        lib_vars >>

\* A hook that returns before the unlock loop.
disconnected_keys_none(ctx) == {}

\* The keys MeshRoot::disconnected unlocks (root.rs:123-125).
disconnected_keys(ctx) == ctx.locks

\* MeshRoot::disconnected (root.rs:110-128), one unlock a step: the hook runs
\* in its own task beside the inbox task.
Disconnected ==
    \E s \in Sessions :
        /\ conn[s] = "dropped"
        /\ context[s].chain_key # <<>>
        /\ LET keys == disconnected_keys(context[s])
           IN  IF keys = {}
               THEN /\ conn' = [ conn EXCEPT ![s] = "closed" ]
                    /\ UNCHANGED << locks, context >>
               ELSE \E k \in keys :
                    /\ locks' = unlock(locks, k)
                    /\ context' = [ context EXCEPT ![s].locks = @ \ {k} ]
                    /\ conn' = [ conn EXCEPT ![s] =
                                   IF keys = {k} THEN "closed" ELSE "dropped" ]
        /\ UNCHANGED << chains, history, nextHash, inbox, outbox, root_pc,
                        group, sent, call, holders, confirmed, openedWith,
                    fedEvents, rejected,
                        lib_vars >>

\* ------------------------------------------------------------------------
\* The root's inbox task (root.rs:353-370): one packet at a time
\* ------------------------------------------------------------------------
Taking(s, t) ==
    /\ root_pc = Idle
    /\ inbox[s] # <<>>
    /\ Head(inbox[s]).t = t

Taken(s) == inbox' = [ inbox EXCEPT ![s] = Tail(@) ]

\* A replay that starts at the most recent of the sample's hashes that
\* history_reverse knows.
replay_start_recent(history_sample) ==
    LET offs == { history_reverse(history_sample[i])[1] :
                    i \in { j \in 1..Len(history_sample) :
                              history_reverse(history_sample[j]) # <<>> } }
    IN  IF offs # {} THEN << CHOOSE a \in offs : \A b \in offs : b <= a >>
        ELSE IF Len(history) > 0 THEN << 1 >> ELSE <<>>

\* inbox_subscribe (root.rs:162-168): where the replay starts.  The first
\* hash of the sample, in the order of the sample, that history_reverse
\* knows; otherwise the first offset of the history, if there is one.
replay_start(history_sample) ==
    LET found == { i \in 1..Len(history_sample) :
                     history_reverse(history_sample[i]) # <<>> }
    IN  IF found # {}
        THEN history_reverse(
                 history_sample[CHOOSE i \in found : \A j \in found : i <= j])
        ELSE IF Len(history) > 0 THEN << 1 >> ELSE <<>>

\* The loop body of root.rs:176-188: `n` iterations are left and `next` is
\* the offset iter.next() returns, if the history has it.
RECURSIVE batch_loop(_, _, _, _)
batch_loop(n, next, cur, entries) ==
    IF n = 0 THEN [ cur |-> cur, entries |-> entries ]
    ELSE IF next <= Len(history)
         THEN batch_loop(n - 1, next + 1, << next >>,
                         Append(entries, history[next]))
         ELSE [ cur |-> <<>>, entries |-> entries ]

\* A batch that reads history.range((Excluded(start), Unbounded)).
replay_batch_exclusive(start) ==
    batch_loop(BatchSize, start + 1, << start >>, <<>>)

\* A batch that does not reset `cur` when the iterator is exhausted.
replay_batch_stuck(start) ==
    LET b == batch_loop(BatchSize, start, << start >>, <<>>)
    IN  [ cur |-> IF b.cur = <<>> THEN << start + Len(b.entries) - 1 >>
                  ELSE b.cur,
          entries |-> b.entries ]

\* A batch that walks the range backwards (iter.next_back()).
replay_batch_rev(start) ==
    LET b == batch_loop(BatchSize, start, << start >>, <<>>)
    IN  [ cur |-> b.cur,
          entries |-> [ i \in 1..Len(b.entries) |->
                          b.entries[Len(b.entries) + 1 - i] ] ]

\* One batch of inbox_subscribe (root.rs:172-189): history.range(start..)
\* includes the offset `start`.
replay_batch(start) == batch_loop(BatchSize, start, << start >>, <<>>)

\* inbox_subscribe, up to the replay loop (root.rs:139-168).
RecvSubscribe ==
    \E s \in Sessions :
        /\ Taking(s, "Subscribe")
        /\ Taken(s)
        /\ LET p == Head(inbox[s])
               o == open_internal(p.chain_key)
           IN  IF ~o.ok
               THEN /\ outbox' = reply_at(outbox, s, [ t |-> "NotThisRoot" ])
                    /\ UNCHANGED << chains, context, group, root_pc >>
               ELSE /\ chains' = o.chains
                    /\ context' = [ context EXCEPT
                                      ![s].root = TRUE,
                                      ![s].chain_key = << p.chain_key >> ]
                    /\ group' = group \cup {s}
                    /\ outbox' = reply_at(outbox, s, [ t |-> "StartOfHistory" ])
                    /\ root_pc' = [ state |-> "replay", session |-> s,
                                    cur |-> replay_start(p.history_sample),
                                    sample |-> p.history_sample,
                                    log |-> history ]
        /\ UNCHANGED << conn, locks, history, nextHash, sent, call, holders,
                        confirmed, openedWith, fedEvents, rejected,
                        lib_vars >>

\* One iteration of the replay loop (root.rs:172-208).
ReplayBatch ==
    /\ root_pc.state = "replay"
    /\ root_pc.cur # <<>>
    /\ LET b == replay_batch(root_pc.cur[1])
       IN  /\ outbox' = reply_at(outbox, root_pc.session,
                                 [ t |-> "Events", commit |-> <<>>,
                                   evts |-> b.entries, replay |-> TRUE ])
           /\ root_pc' = [ root_pc EXCEPT !.cur = b.cur ]
    /\ UNCHANGED << chains, context, conn, locks, history, nextHash, inbox,
                    group, sent, call, holders, confirmed, openedWith,
                    fedEvents, rejected,
                    lib_vars >>

\* The end of inbox_subscribe (root.rs:210-212).
ReplayEnd ==
    /\ root_pc.state = "replay"
    /\ root_pc.cur = <<>>
    /\ outbox' = reply_at(outbox, root_pc.session, [ t |-> "EndOfHistory" ])
    /\ root_pc' = Idle
    /\ UNCHANGED << chains, context, conn, locks, history, nextHash, inbox,
                    group, sent, call, holders, confirmed, openedWith,
                    fedEvents, rejected,
                    lib_vars >>

\* inbox_get_chain (root.rs:215-239): the chain of a bound session.
\* A lookup that finds a chain for every session.
inbox_get_chain_any(s) == << OwnedChain >>

\* inbox_get_chain (root.rs:222-229): the chain key of the session context.
inbox_get_chain(s) == context[s].chain_key

NotYetSubscribed(s) ==
    /\ outbox' = reply_at(outbox, s, [ t |-> "NotYetSubscribed" ])
    /\ UNCHANGED << locks, context, holders, history, call, confirmed >>

\* A reply that confirms whatever feed returned.
commit_reply_ok(id, ok) == [ t |-> "Confirmed", id |-> id ]

\* The reply of inbox_event to a commit (root.rs:273-281).
commit_reply(id, ok) ==
    IF ok THEN [ t |-> "Confirmed", id |-> id ]
          ELSE [ t |-> "CommitError", id |-> id ]

\* inbox_event (root.rs:241-284).
RecvEvents ==
    \E s \in Sessions :
        /\ Taking(s, "Events")
        /\ Taken(s)
        /\ LET p == Head(inbox[s])
           IN  IF inbox_get_chain(s) = <<>>
               THEN /\ NotYetSubscribed(s)
                    /\ rejected' = rejected \cup Range(p.evts)
               ELSE LET ret == feed_async(history, p.evts, p.valid)
                        fwd == IF ret.ok
                               THEN TxGroup_send(outbox,
                                        [ t |-> "Events", commit |-> p.commit,
                                          evts |-> p.evts, replay |-> FALSE ],
                                        << s >>)
                               ELSE outbox
                    IN  /\ history' = ret.log
                        /\ rejected' = IF ret.ok THEN rejected
                                       ELSE rejected \cup Range(p.evts)
                        /\ IF p.commit # <<>>
                           THEN /\ outbox' = reply_at(fwd, s,
                                       commit_reply(p.commit[1], ret.ok))
                                /\ call' = returned(call, s, p.commit[1],
                                       IF ret.ok THEN "Ok" ELSE "Err")
                                /\ confirmed' =
                                       IF /\ ret.ok
                                          /\ call[s].result = "pending"
                                          /\ call[s].id = p.commit
                                       THEN confirmed \cup Range(p.evts)
                                       ELSE confirmed
                           ELSE /\ outbox' = fwd
                                /\ UNCHANGED << call, confirmed >>
                        /\ UNCHANGED << locks, context, holders >>
        /\ UNCHANGED << chains, conn, nextHash, root_pc, group, sent,
                        openedWith, fedEvents,
                        lib_vars >>

\* What inbox_lock records in the session's held-lock set (root.rs:300).
lock_insert(held, key, is_locked) == held \cup {key}

\* inbox_lock (root.rs:286-306).
RecvLock ==
    \E s \in Sessions :
        /\ Taking(s, "Lock")
        /\ Taken(s)
        /\ LET key == Head(inbox[s]).key
           IN  IF inbox_get_chain(s) = <<>>
               THEN NotYetSubscribed(s)
               ELSE LET r == try_lock(locks, key)
                    IN  /\ locks' = r.locks
                        /\ context' = [ context EXCEPT ![s].locks =
                                          lock_insert(@, key, r.is_locked) ]
                        /\ outbox' = reply_at(outbox, s,
                                        [ t |-> "LockResult", key |-> key,
                                          is_locked |-> r.is_locked ])
                        /\ holders' = IF r.is_locked
                                      THEN [ holders EXCEPT ![key] = @ \cup {s} ]
                                      ELSE holders
                        /\ UNCHANGED << history, call, confirmed >>
        /\ UNCHANGED << chains, conn, nextHash, root_pc, group, sent,
                        openedWith, fedEvents, rejected,
                        lib_vars >>

\* inbox_unlock (root.rs:308-324).
RecvUnlock ==
    \E s \in Sessions :
        /\ Taking(s, "Unlock")
        /\ Taken(s)
        /\ LET key == Head(inbox[s]).key
           IN  IF inbox_get_chain(s) = <<>>
               THEN NotYetSubscribed(s)
               ELSE /\ context' = [ context EXCEPT ![s].locks = @ \ {key} ]
                    /\ locks' = unlock(locks, key)
                    /\ holders' = [ holders EXCEPT ![key] = @ \ {s} ]
                    /\ UNCHANGED << outbox, history, call, confirmed >>
        /\ UNCHANGED << chains, conn, nextHash, root_pc, group, sent,
                        openedWith, fedEvents, rejected,
                        lib_vars >>

\* A writer on the server itself (a chain handle obtained from Mesh::open,
\* root.rs:393-408) appends an event while the inbox task is between steps.
LocalFeed ==
    /\ nextHash <= MaxEvents
    /\ OwnedChain \in chains
    /\ history' = feed_async(history, << nextHash >>, TRUE).log
    /\ nextHash' = nextHash + 1
    /\ UNCHANGED << chains, context, conn, locks, inbox, outbox, root_pc,
                    group, sent, call, holders, confirmed, openedWith,
                    fedEvents, rejected,
                    lib_vars >>

\* ------------------------------------------------------------------------
\* Specifications
\* ------------------------------------------------------------------------
RECURSIVE TotalSent(_)
TotalSent(n) == IF n = 0 THEN 0 ELSE sent[n] + TotalSent(n - 1)

\* The clients have sent fewer than n packets.
Budget(n) == TotalSent(NumSessions) < n

Next ==
    \/ /\ Budget(MaxPackets)
       /\ \/ SubscribeFresh \/ SubscribeForeign \/ SubscribeSample
          \/ ClientLock \/ ClientUnlock \/ ClientCommit \/ ClientSync
    \/ Timeout \/ Drop \/ Disconnected
    \/ RecvSubscribe \/ ReplayBatch \/ ReplayEnd \/ RecvEvents
    \/ RecvLock \/ RecvUnlock \/ LocalFeed

Spec == Init /\ [][Next]_vars

\* The lock protocol: clients subscribe, lock, unlock and disconnect.  No
\* event is written, so the replay of a subscription has no batch to send.
NextLock ==
    \/ /\ Budget(MaxLockPackets)
       /\ \/ SubscribeFresh \/ SubscribeForeign \/ ClientLock \/ ClientUnlock
       /\ \A s \in Sessions : s > LockSessions => sent'[s] = 0
    \/ Drop \/ Disconnected
    \/ RecvSubscribe \/ ReplayEnd \/ RecvLock \/ RecvUnlock

SpecLock == Init /\ [][NextLock]_vars

\* The replay: clients subscribe with and without samples while a local
\* writer appends events.
NextReplay ==
    \/ /\ Budget(MaxReplayPackets)
       /\ \/ SubscribeFresh \/ SubscribeSample
    \/ LocalFeed
    \/ RecvSubscribe \/ ReplayBatch \/ ReplayEnd

SpecReplay == InitLoaded /\ [][NextReplay]_vars

\* The inbox task is never starved: a replay loop that can send its next
\* batch, or its EndOfHistory, does so.
SpecReplayFair ==
    SpecReplay /\ WF_vars(ReplayBatch) /\ WF_vars(ReplayEnd)

\* The write path: clients subscribe, commit and sync.
NextCommit ==
    \/ /\ Budget(MaxCommitPackets)
       /\ \/ SubscribeFresh \/ ClientCommit \/ ClientSync
    \/ Timeout
    \/ RecvSubscribe \/ ReplayBatch \/ ReplayEnd \/ RecvEvents

SpecCommit == Init /\ [][NextCommit]_vars

\* The multicast: clients subscribe, commit and disconnect.
NextCast ==
    \/ /\ Budget(MaxCastPackets)
       /\ \/ SubscribeFresh \/ ClientCommit
    \/ Drop \/ Disconnected
    \/ RecvSubscribe \/ ReplayBatch \/ ReplayEnd \/ RecvEvents

SpecCast == Init /\ [][NextCast]_vars

\* Protocol misuse: clients send requests with and without a subscription,
\* to chains of this root and of another.
NextMisuse ==
    \/ /\ Budget(MaxMisusePackets)
       /\ \/ SubscribeFresh \/ SubscribeForeign
          \/ ClientLock \/ ClientUnlock \/ ClientCommit
       /\ \A s \in Sessions : s > LockSessions => sent'[s] = 0
    \/ Timeout
    \/ RecvSubscribe \/ ReplayBatch \/ ReplayEnd
    \/ RecvEvents \/ RecvLock \/ RecvUnlock

SpecMisuse == Init /\ [][NextMisuse]_vars

\* The indexer: event headers are fed one after the other.
NextIndex == Feed

SpecIndex == Init /\ [][NextIndex]_vars

\* The registry: tasks call open concurrently.
NextOpen == OpenCall \/ OpenLock \/ OpenEntry \/ OpenBuild

SpecOpen == Init /\ [][NextOpen]_vars

\* The handles of one chain are cloned and released.
NextHandles == ArcClone \/ ChainClone \/ ArcDrop

SpecHandles == Init /\ [][NextHandles]_vars

\* A connection is made: hello, certificate check and key exchange.
NextLink ==
    \/ Connect \/ ClientHello \/ ClientRecvHello
    \/ ClientKexPk1 \/ ClientKexIv1 \/ ClientKexPk2
    \/ ServerRaw \/ ServerHello \/ ForeignHello \/ ServerCertCheck
    \/ ServerKexPk1 \/ ServerKexIv2 \/ ServerRoute

SpecLink == Init /\ [][NextLink]_vars

\* Keys are combined, encapsulated and decapsulated.
NextCrypto == XorKeys \/ Kem

SpecCrypto == Init /\ [][NextCrypto]_vars

\* A client writes a row to the chain: a request of the handler's type or
\* a row of another type, with or without data.
SvcRequest ==
    /\ \E k \in Requests, t \in { RequestType, "Other" }, data \in BOOLEAN :
          /\ service.rows[k] = <<>>
          /\ \A j \in 1..(k - 1) : service.rows[j] # <<>>
          /\ \A i \in 1..Len(service.log) : k \notin service.log[i].deleted
          /\ service' = [ service EXCEPT
                            !.rows[k] = << [ type_name |-> t, data |-> data ] >> ]
    /\ UNCHANGED not_service

\* The dispatcher of the chain calls notify of a hook for an event that
\* passes its filter; dio_trans and auto_cancel (service_hook.rs:54-70).
SvcNotify ==
    /\ \E h \in Hooks, k \in Requests :
          /\ service.hook[h].pc = "idle"
          /\ << h, k >> \notin service.notified
          /\ service.rows[k] # <<>>
          /\ filter(service.rows[k][1])
          /\ service' = [ service EXCEPT
                            !.notified = @ \cup { << h, k >> },
                            !.hook[h] = [ pc |-> "try_lock", key |-> k,
                                          dio |-> EmptyDio, ret |-> "none" ] ]
    /\ UNCHANGED not_service

\* dio.try_lock(key) (service_hook.rs:72-76).
SvcTryLock ==
    /\ \E h \in Hooks :
          /\ service.hook[h].pc = "try_lock"
          /\ LET key == service.hook[h].key
                 r == try_lock(service.locks, key)
             IN  IF proceeds(r.is_locked)
                 THEN service' = [ service EXCEPT
                        !.locks = r.locks,
                        !.hook[h].dio.locked =
                            IF r.is_locked THEN { key } ELSE {},
                        !.hook[h].pc = "load" ]
                 ELSE service' = [ service EXCEPT
                        !.skipped = @ \cup { << h, key >> },
                        !.hook[h].pc = "idle" ]
    /\ UNCHANGED not_service

\* dio.load_raw(&key), the data of the row, handler.invoke(req), cancel on
\* an error of the handler, dio.delete(&key) and send_reply
\* (service_hook.rs:78-111).  The reply is committed by a task of its own.
SvcInvoke ==
    /\ \E h \in Hooks, ret \in { "Ok", "Err", "InvokeError" } :
          /\ service.hook[h].pc = "load"
          /\ LET key == service.hook[h].key
                 row == service.rows[key]
                 dio == service.hook[h].dio
             IN  IF row = <<>> \/ ~row[1].data
                 THEN \* load_raw fails, or NoData: the scope is left
                      /\ ret = "Ok"
                      /\ service' = [ service EXCEPT
                             !.hook[h].dio = dio_cancel(dio),
                             !.hook[h].ret = IF row = <<>> THEN "LoadError"
                                             ELSE "NoData",
                             !.hook[h].pc = "idle" ]
                 ELSE IF ret = "InvokeError"
                 THEN service' = [ service EXCEPT
                             !.invoked = Append(@, << h, key >>),
                             !.hook[h].dio = dio_cancel(dio),
                             !.hook[h].ret = ret,
                             !.hook[h].pc = "idle" ]
                 ELSE LET d1 == IF ret = "Err" THEN dio_cancel(dio) ELSE dio
                          d2 == [ d1 EXCEPT !.deleted = @ \cup { key } ]
                          d3 == send_reply(d2, key,
                                    IF ret = "Ok" THEN ResponseType
                                    ELSE ErrorType)
                      IN  service' = [ service EXCEPT
                             !.invoked = Append(@, << h, key >>),
                             !.hook[h].dio = d3,
                             !.hook[h].ret = ret,
                             !.hook[h].pc = "commit" ]
    /\ UNCHANGED not_service

\* The spawned task commits the transaction (service_hook.rs:115-123): the
\* write set becomes one transaction of the chain and the locks of the dio
\* are released.
SvcCommit ==
    /\ \E h \in Hooks :
          /\ service.hook[h].pc = "commit"
          /\ LET dio == service.hook[h].dio
             IN  service' = [ service EXCEPT
                    !.log = Append(@, [ by |-> h, deleted |-> dio.deleted,
                                        rows |-> dio.rows ]),
                    !.rows = [ k \in Requests |->
                                 IF k \in dio.deleted THEN <<>> ELSE @[k] ],
                    !.locks = @ \ dio.locked,
                    !.hook[h].dio = EmptyDio,
                    !.hook[h].pc = "idle" ]
    /\ UNCHANGED not_service

\* Requests are written and the hooks of the chain are notified of them.
NextService == SvcRequest \/ SvcNotify \/ SvcTryLock \/ SvcInvoke \/ SvcCommit

SpecService == Init /\ [][NextService]_vars

\* Chain URLs are made.
NextUrl == MakeUrl

SpecUrl == Init /\ [][NextUrl]_vars

\* Routes are registered and connections are dispatched.
NextRouter == AddSocketRoute \/ SetDefaultRoute \/ AcceptSocket

SpecRouter == Init /\ [][NextRouter]_vars

\* The inbox loop of one connection.
NextInbox == InboxStart \/ InboxProcess \/ InboxExit

SpecInbox == Init /\ [][NextInbox]_vars

\* A session sends an Events packet for the chain.
WrSend ==
    /\ writer.posted < MaxWriterPackets
    /\ \E s \in Sessions :
          writer' = [ writer EXCEPT !.queue[s] = @ + 1, !.posted = @ + 1 ]
    /\ UNCHANGED not_writer

\* The inbox task takes the next packet of session s: rx.recv() of the one
\* loop of the root (root.rs:359), inbox_packet and inbox_get_chain
\* (root.rs:339-344, 252-255).
WrTakeOf(s) ==
    /\ writer.pc = "idle"
    /\ writer.queue[s] > 0
    /\ \E commit \in BOOLEAN, valid \in BOOLEAN :
          writer' = [ writer EXCEPT !.queue[s] = @ - 1, !.pc = "single",
                                    !.cur = s, !.commit = commit,
                                    !.valid = valid ]
    /\ UNCHANGED not_writer

WrTake == \E s \in Sessions : WrTakeOf(s)

\* chain.single().await (root.rs:259): the task waits for the writer lock.
WrSingle ==
    /\ writer.pc = "single"
    /\ writer.single = <<>>
    /\ writer' = [ writer EXCEPT !.single = << "inbox" >>, !.pc = "feed" ]
    /\ UNCHANGED not_writer

\* The handler returns to the loop of the inbox task.
wr_return(w) ==
    [ w EXCEPT !.pc = "idle", !.single = handler_return(@) ]

\* single.feed_async(&evts).await and drop(single) (root.rs:260-261); with
\* an error of the feed nothing is forwarded (root.rs:270).
WrFeed ==
    /\ writer.pc = "feed"
    /\ LET w == [ writer EXCEPT
                    !.fed = IF writer.valid THEN Append(@, writer.cur) ELSE @,
                    !.single = drop_single(@) ]
       IN  writer' = IF writer.valid THEN [ w EXCEPT !.pc = "notify" ]
                     ELSE IF writer.commit THEN [ w EXCEPT !.pc = "reply" ]
                     ELSE wr_return(w)
    /\ UNCHANGED not_writer

\* chain.notify and tx.downcast_packet have been awaited (root.rs:264-268).
WrNotify ==
    /\ writer.pc = "notify"
    /\ writer' = IF writer.commit THEN [ writer EXCEPT !.pc = "reply" ]
                  ELSE wr_return(writer)
    /\ UNCHANGED not_writer

\* Confirmed or CommitError has been sent (root.rs:273-281).
WrReply ==
    /\ writer.pc = "reply"
    /\ writer' = wr_return(writer)
    /\ UNCHANGED not_writer

\* A writer on the server itself takes the writer lock of the chain.
WrLocalSingle ==
    /\ writer.local = "idle"
    /\ writer.single = <<>>
    /\ Len(SelectSeq(writer.fed, LAMBDA x : x = 0)) < MaxLocalWrites
    /\ writer' = [ writer EXCEPT !.single = << "local" >>,
                                  !.local = "holding" ]
    /\ UNCHANGED not_writer

\* It feeds its event and drops the guard.
WrLocalFeed ==
    /\ writer.local = "holding"
    /\ writer' = [ writer EXCEPT !.fed = Append(@, 0), !.single = <<>>,
                                  !.local = "idle" ]
    /\ UNCHANGED not_writer

\* Sessions and a local writer write to one chain.
NextWriter ==
    \/ WrSend \/ WrTake \/ WrSingle \/ WrFeed \/ WrNotify \/ WrReply
    \/ WrLocalSingle \/ WrLocalFeed

SpecWriter == Init /\ [][NextWriter]_vars

\* replace_group(new_group) is called and the connection is inserted into
\* the new group under its lock (rx_tx.rs:138-146).
TxgInsert ==
    /\ \E c \in TxIds, g \in TxGroups :
          /\ txg.pc[c] = "idle"
          /\ txg' = [ txg EXCEPT !.all[g] = @ \cup { c },
                                  !.new[c] = g,
                                  !.pc[c] = "inserted" ]
    /\ UNCHANGED not_txg

\* TxGroupSpecific::replace_group (rx_tx.rs:148, 249-252): the pointer is
\* swapped and the old group is kept.
TxgReplace ==
    /\ \E c \in TxIds :
          /\ txg.pc[c] = "inserted"
          /\ txg' = [ txg EXCEPT !.old[c] = txg.group[c],
                                  !.group[c] = txg.new[c],
                                  !.pc[c] = "replaced" ]
    /\ UNCHANGED not_txg

\* The connection is removed from the old group under its lock
\* (rx_tx.rs:150-153).
TxgRemove ==
    /\ \E c \in TxIds :
          /\ txg.pc[c] = "replaced"
          /\ txg' = [ txg EXCEPT !.all[txg.old[c]] = @ \ { c },
                                  !.pc[c] = "idle" ]
    /\ UNCHANGED not_txg

\* Connections move between groups.
NextTxg == TxgInsert \/ TxgReplace \/ TxgRemove

SpecTxg == Init /\ [][NextTxg]_vars

\* The chain is built with its configuration.
CloseConfigure ==
    /\ closing.mode = "unset"
    /\ \E mode \in BackupModes, compact \in BOOLEAN :
          closing' = [ closing EXCEPT !.mode = mode, !.compact = compact ]
    /\ UNCHANGED not_closing

\* shutdown is called: the match on the backup mode (core.rs:151-161).
CloseCall ==
    /\ closing.mode # "unset"
    /\ closing.calls < MaxShutdownCalls
    /\ \E c \in Closers :
          /\ closing.pc[c] = "idle"
          /\ closing' =
                IF backs_up(closing.mode)
                THEN [ closing EXCEPT !.pc[c] = "single", !.ret[c] = "none",
                                      !.calls = @ + 1 ]
                ELSE [ closing EXCEPT !.ret[c] = "Ok", !.calls = @ + 1 ]
    /\ UNCHANGED not_closing

\* self.single().await, the test of the flag and, for the first, the start
\* of the backup; the others drop the guard and return (core.rs:163-178,
\* 186).
CloseSingle ==
    /\ \E c \in Closers :
          /\ closing.pc[c] = "single"
          /\ closing.single = <<>>
          /\ closing' =
                IF we_are_the_one(closing.is_shutdown)
                THEN [ closing EXCEPT
                         !.is_shutdown = TRUE,
                         !.single = << c >>,
                         !.backups = Append(@,
                                        include_active_files(closing.mode)),
                         !.pc[c] = "backup" ]
                ELSE [ closing EXCEPT !.pc[c] = "idle", !.ret[c] = "Ok" ]
    /\ UNCHANGED not_closing

\* The backup ends, with or without an error, and the guard is dropped
\* (core.rs:167-175); without compaction the call returns (core.rs:179-186).
CloseBackup ==
    /\ \E c \in Closers, ok \in BOOLEAN :
          /\ closing.pc[c] = "backup"
          /\ closing' =
                IF ~ok
                THEN [ closing EXCEPT !.single = <<>>, !.pc[c] = "idle",
                                      !.ret[c] = "Err" ]
                ELSE IF closing.compact
                THEN [ closing EXCEPT !.single = <<>>, !.pc[c] = "compact" ]
                ELSE [ closing EXCEPT !.single = <<>>, !.pc[c] = "idle",
                                      !.ret[c] = "Ok" ]
    /\ UNCHANGED not_closing

\* self.compact().await of the one task (core.rs:179-184).
CloseCompact ==
    /\ \E c \in Closers, ok \in BOOLEAN :
          /\ closing.pc[c] = "compact"
          /\ closing' = [ closing EXCEPT !.compacts = @ + 1,
                                          !.pc[c] = "idle",
                                          !.ret[c] = IF ok THEN "Ok" ELSE "Err" ]
    /\ UNCHANGED not_closing

\* Tasks shut one chain down.
NextClosing ==
    CloseConfigure \/ CloseCall \/ CloseSingle \/ CloseBackup \/ CloseCompact

SpecClosing == Init /\ [][NextClosing]_vars

\* Wait times are computed.
NextThrottle == ThrottleWait

SpecThrottle == Init /\ [][NextThrottle]_vars

\* ------------------------------------------------------------------------
\* What a connection has been sent
\* ------------------------------------------------------------------------
LockResult(k, b) == [ t |-> "LockResult", key |-> k, is_locked |-> b ]

\* The connection has been answered that it holds the key.
Granted(s, k) == LockResult(k, TRUE) \in Range(outbox[s])

Max(S) == CHOOSE x \in S : \A y \in S : y <= x

\* The events of the Events messages from position `from` on, in order; only
\* those of replay batches when replayOnly.
RECURSIVE Gather(_, _, _)
Gather(out, from, replayOnly) ==
    IF from > Len(out) THEN <<>>
    ELSE LET m == out[from]
         IN  (IF m.t = "Events" /\ (~replayOnly \/ m.replay)
              THEN m.evts ELSE <<>>) \o Gather(out, from + 1, replayOnly)

Markers == { "StartOfHistory", "EndOfHistory" }

\* The last StartOfHistory / EndOfHistory before position i, "none" if none.
LastMarker(out, i) ==
    LET J == { j \in 1..(i - 1) : out[j].t \in Markers }
    IN  IF J = {} THEN "none" ELSE out[Max(J)].t

\* The position of the last StartOfHistory, 0 if there is none.
LastStart(out) ==
    LET J == { j \in 1..Len(out) : out[j].t = "StartOfHistory" }
    IN  IF J = {} THEN 0 ELSE Max(J)

\* The replay batches of the connection's last subscription.
Batches(out) ==
    { i \in (LastStart(out) + 1)..Len(out) : out[i].t = "Events" /\ out[i].replay }

\* The events replayed by the connection's last subscription, in order.
Replayed(out) == Gather(out, LastStart(out) + 1, TRUE)

\* Everything the server has fed to the local chain of the client.
ClientLog(s) == Gather(outbox[s], 1, FALSE)

\* lookup_primary on the client's index after feeding ClientLog
\* (BinaryTreeIndexer::feed inserts the hash under the key of Data(k)).
client_primary(s, k) ==
    LET L == ClientLog(s)
        I == { i \in 1..Len(L) : KeyOf(L[i]) = k }
    IN  IF I = {} THEN <<>> ELSE << L[Max(I)] >>

\* The connection's last Subscribe has been answered up to EndOfHistory.
SubscriptionDone(s) ==
    /\ LastMarker(outbox[s], Len(outbox[s]) + 1) = "EndOfHistory"
    /\ \A i \in 1..Len(inbox[s]) : inbox[s][i].t # "Subscribe"

\* ------------------------------------------------------------------------
\* Locks
\* ------------------------------------------------------------------------

\* C1: at most one session at a time has been answered is_locked = true for
\* a key without having since unlocked it or disconnected.
C1_LockExclusive == \A k \in Keys : Cardinality(holders[k]) <= 1

NewReplies(s) == SubSeq(outbox'[s], Len(outbox[s]) + 1, Len(outbox'[s]))

\* The root handles the Events packet at the head of the inbox of s, and the
\* packet carries a commit id.
HandlesCommit(s) ==
    /\ Taking(s, "Events")
    /\ inbox'[s] = Tail(inbox[s])
    /\ Head(inbox[s]).commit # <<>>

\* The positions of the replies to commit id c in an outbox.
CommitReplies(out, c) ==
    { i \in 1..Len(out) : /\ out[i].t \in { "Confirmed", "CommitError" }
                          /\ out[i].id = c }

\* The one reply to the handled packet: Confirmed iff its events passed
\* validation, and then the events are in the log.
OneCommitReply(s) ==
    LET p == Head(inbox[s])
        c == p.commit[1]
    IN  /\ CommitReplies(outbox[s], c) = {}
        /\ NewReplies(s) = << IF p.valid THEN [ t |-> "Confirmed", id |-> c ]
                              ELSE [ t |-> "CommitError", id |-> c ] >>
        /\ p.valid => history' = history \o p.evts
        /\ ~p.valid => history' = history

\* C3 as stated: every Events packet with a commit id c is answered to its
\* sender by exactly one reply for c, Confirmed(c) iff feed accepted the
\* events and CommitError(c) otherwise, Confirmed only with the events applied.
C3_CommitReplyAlways ==
    [][ \A s \in Sessions : HandlesCommit(s) => OneCommitReply(s) ]_vars

\* C3 amended: the same for the packets of a session that a successful
\* Subscribe has bound to a chain; the packet of a session that is not yet
\* subscribed is answered NotYetSubscribed only, and nothing is applied.
C3_CommitReply ==
    [][ \A s \in Sessions :
          HandlesCommit(s) =>
            IF inbox_get_chain(s) # <<>>
            THEN OneCommitReply(s)
            ELSE /\ NewReplies(s) = << [ t |-> "NotYetSubscribed" ] >>
                 /\ history' = history ]_vars

\* A subscribed session has been answered Confirmed for one commit and
\* CommitError for another.
C3_Witness ==
    \E s \in Sessions :
        /\ inbox_get_chain(s) # <<>>
        /\ \E i, j \in 1..Len(outbox[s]) :
              /\ outbox[s][i].t = "Confirmed"
              /\ outbox[s][j].t = "CommitError"
              /\ outbox[s][i].id # outbox[s][j].id
        /\ history # <<>>

\* C4: when a second client has finished a subscription that it began after
\* a scope-Full commit returned success, its chain holds every event of that
\* commit and a lookup of the event's key gives that event or a later write
\* of the same key.
C4_WriteThenRead ==
    \A s \in Sessions :
        SubscriptionDone(s) =>
            \A h \in openedWith[s] :
                LET v == client_primary(s, KeyOf(h))
                IN  /\ h \in Range(ClientLog(s))
                    /\ v # <<>>
                    /\ history_reverse(v[1]) # <<>>
                    /\ history_reverse(v[1])[1] >= history_reverse(h)[1]

\* Another client committed a record, then this client subscribed, finished
\* and finds the record under its key.
C4_Witness ==
    \E s \in Sessions :
        /\ SubscriptionDone(s)
        /\ \E h \in openedWith[s] :
              /\ h \notin fedEvents[s]
              /\ client_primary(s, KeyOf(h)) = << h >>

EndsQuietReplay ==
    /\ root_pc.state = "replay"
    /\ root_pc' = Idle
    /\ history = root_pc.log

\* The log after the most recent event named by the sample, the whole log
\* when the sample names no event of the log.
SuffixAfterSample(history_sample) ==
    LET offs == { history_reverse(history_sample[i])[1] :
                    i \in { j \in 1..Len(history_sample) :
                              history_reverse(history_sample[j]) # <<>> } }
    IN  IF offs = {} THEN history
        ELSE SubSeq(history, Max(offs) + 1, Len(history))

\* C6 as stated: the events streamed between StartOfHistory and EndOfHistory
\* are the suffix of the log just after the most recent sample hash found in
\* the log, that event excluded, or the whole log when none is found.
C6_CatchUp ==
    [][ EndsQuietReplay =>
          Replayed(outbox'[root_pc.session]) = SuffixAfterSample(root_pc.sample)
      ]_vars

\* C7 as stated: with an empty sample and no concurrent write the replay
\* carries each event of the log exactly once, in batches of at most
\* BatchSize entries.
C7_ExactlyOnce ==
    [][ (EndsQuietReplay /\ root_pc.sample = <<>>) =>
          LET out == outbox'[root_pc.session]
          IN  /\ Replayed(out) = history
              /\ \A i \in Batches(out) : Len(out[i].evts) <= BatchSize ]_vars

\* The replies of a subscription are bracketed: replay batches and
\* EndOfHistory only after an open StartOfHistory, StartOfHistory only when
\* no bracket is open, the bracket is open exactly while the root replays to
\* the session, and it holds at most one batch per event of the log.
Bracketed ==
    \A s \in Sessions :
        LET out == outbox[s]
        IN  /\ \A i \in 1..Len(out) :
                  /\ (out[i].t = "Events" /\ out[i].replay) =>
                        LastMarker(out, i) = "StartOfHistory"
                  /\ out[i].t = "EndOfHistory" =>
                        LastMarker(out, i) = "StartOfHistory"
                  /\ out[i].t = "StartOfHistory" =>
                        LastMarker(out, i) # "StartOfHistory"
            /\ (root_pc.state = "replay" /\ root_pc.session = s) <=>
                  LastMarker(out, Len(out) + 1) = "StartOfHistory"
            /\ Cardinality(Batches(out)) <= Len(history)
            /\ \A i \in Batches(out) : out[i].evts # <<>>

C10_ReplayOrder ==
    \A s \in Sessions :
        LET R == Replayed(outbox[s])
        IN  \A i, j \in 1..Len(R) :
                (R[i] # R[j] /\ history_reverse(R[i]) # <<>>
                             /\ history_reverse(R[j]) # <<>>) =>
                    (i < j <=> history_reverse(R[i])[1] < history_reverse(R[j])[1])

\* A replay delivered three different events in two batches.
C10_Witness ==
    \E s \in Sessions :
        /\ Cardinality(Range(Replayed(outbox[s]))) >= 3
        /\ Cardinality(Batches(outbox[s])) >= 2

\* The root handles the Events packet at the head of the inbox of s.
HandlesEvents(s) ==
    /\ Taking(s, "Events")
    /\ inbox'[s] = Tail(inbox[s])

\* The members of the group, other than s, whose connection is alive.
LiveOthers(s) == { m \in group \ {s} : conn[m] = "open" }

\* The forwarded copy of an Events packet.
Forwarded(p) ==
    [ t |-> "Events", commit |-> p.commit, evts |-> p.evts, replay |-> FALSE ]

\* C11: when the root handles the Events packet of a session, an accepted
\* packet is appended once to the outbox of every other live member of the
\* group, also when the group holds a member that cannot be sent to; a
\* refused packet, or one of an unsubscribed session, is forwarded to nobody;
\* the submitting connection is never sent its own events, and no refused
\* event is ever in a message to a subscriber.
C11_Multicast ==
    /\ [][ \A s \in Sessions :
             HandlesEvents(s) =>
               LET p == Head(inbox[s])
                   accepted == inbox_get_chain(s) # <<>> /\ p.valid
               IN  /\ \A m \in Sessions \ {s} :
                         outbox'[m] =
                            IF accepted /\ m \in LiveOthers(s)
                            THEN Append(outbox[m], Forwarded(p))
                            ELSE outbox[m]
                   /\ \A i \in 1..Len(NewReplies(s)) :
                         NewReplies(s)[i].t # "Events" ]_vars
    /\ [](\A m \in Sessions : Range(ClientLog(m)) \cap rejected = {})

\* A member of the group was gone when another session's commit was
\* multicast, and a third, live member was forwarded the events.
C11_Witness ==
    \E a \in Sessions, m \in Sessions :
        /\ a # m
        /\ a \in group
        /\ conn[a] # "open"
        /\ a < m
        /\ \E i \in 1..Len(outbox[m]) :
              /\ outbox[m][i].t = "Events"
              /\ ~outbox[m][i].replay
              /\ outbox[m][i].evts # <<>>
              /\ Range(outbox[m][i].evts) \cap
                    (Range(ClientLog(a)) \cup fedEvents[a]) = {}

\* C12 as stated: after any prefix of the log lookup_primary(k) is the hash
\* of the most recent event with Data(k) and a payload that has not been
\* tombstoned since, nothing when there is none; an event with Data(k) and
\* no payload leaves the primary map as it was.
C12_PrimaryIndex ==
    /\ [](\A k \in Keys :
            /\ lookup_primary(indexer.idx, k) \in indexer.want[k]
            /\ indexer.events[k] \in indexer.want[k])
    /\ [][ \A k \in Keys :
             ( /\ indexer'.count = indexer.count + 1
               /\ indexer'.last[1].data_hash = <<>>
               /\ Entries(indexer'.last[1].core, "Tombstone") = {}
               /\ \E i \in Entries(indexer'.last[1].core, "Data") :
                     indexer'.last[1].core[i].arg = k )
             => indexer'.idx.primary = indexer.idx.primary ]_vars

\* C13 as stated: after an event with Tombstone(k), lookup_primary(k) is
\* absent and no secondary collection holds k, with or without a Tree entry
\* in the tombstone event; after a later event with Data(k), a payload and
\* Tree(c), k is in the primary map and in collection c.
C13_Tombstone ==
    \A k \in Keys :
        indexer.last # <<>> =>
            LET entry == indexer.last[1]
            IN  /\ HasTombstone(entry, k) =>
                      /\ lookup_primary(indexer.idx, k) = <<>>
                      /\ \A c \in Collections :
                            k \notin Range(indexer.idx.secondary[c])
                /\ ( /\ HasData(entry, k)
                     /\ get_data_key(entry.core) = << k >>
                     /\ Entries(entry.core, "Tombstone") = {}
                     /\ get_tree(entry.core) # <<>> ) =>
                      /\ lookup_primary(indexer.idx, k) = << entry.event_hash >>
                      /\ k \in Range(indexer.idx.secondary[get_tree(entry.core)[1]])

\* C14: whatever the interleaving of the calls of open for a key, at most
\* one chain is constructed for it and every call that succeeds returns that
\* one instance, the one the registry holds; a call that has just failed
\* leaves the registry without an entry for its key.
C14_OneInstance ==
    \A key \in ChainKeys :
        /\ opening.built[key] <= 1
        /\ Cardinality(opening.handed[key]) <= 1
        /\ opening.registry[key] # <<>> =>
              opening.handed[key] = { opening.registry[key][1] }
        /\ opening.failed = << key >> => opening.registry[key] = <<>>
        /\ ~lookup_here(key) => opening.registry[key] = <<>>

\* A chain was constructed while another call for the same key waited, and
\* all the calls that returned share the one chain that was constructed.
C14_Witness ==
    /\ opening.raced
    /\ opening.built[OwnedChain] = 1
    /\ opening.handed[OwnedChain] = { 1 }
    /\ opening.calls >= 3
    /\ \A p \in Callers : opening.pc[p] = "idle"

\* C15 as stated: an exit broadcast is sent only by the release of the last
\* handle to the chain; releasing a handle while other handles or clones of
\* the chain are in use sends none, and the dependent tasks go on.
C15_ExitOnLastRelease ==
    /\ [][ handles'.exits > handles.exits =>
             InUse(handles'.strong, MaxChainValues) = 0 ]_vars
    /\ [](handles.tasks = "exited" =>
             InUse(handles.strong, MaxChainValues) = 0)

\* The lower of the versions the two hellos advertise, a hello without the
\* field counting as V1.
LowerAdvertised ==
    IF link.cfg.c_ver = << "V2" >> /\ link.cfg.s_ver = << "V2" >>
    THEN "V2" ELSE "V1"

\* Both ends have come out of the hello exchange with this server.
HelloCompleted ==
    /\ link.cfg.this_server
    /\ link.client.meta # <<>>
    /\ link.server.meta # <<>>
    /\ "hello" \in Range(link.client.read)

\* C16: StreamProtocolVersion::min is symmetric and idempotent, and after a
\* completed hello exchange the sender and the receiver have both switched
\* their read and write halves to the same version, the lower of the two
\* advertised versions, a hello without the version field counting as V1.
C16_VersionAgreement ==
    /\ \A a \in Versions, b \in Versions :
          /\ StreamProtocolVersion_min(a, b) = StreamProtocolVersion_min(b, a)
          /\ StreamProtocolVersion_min(a, a) = a
    /\ HelloCompleted =>
          /\ link.client.rx = LowerAdvertised
          /\ link.client.tx = LowerAdvertised
          /\ link.server.rx = LowerAdvertised
          /\ link.server.tx = LowerAdvertised
          /\ link.client.switched = { "rx", "tx" }
          /\ link.server.switched = { "rx", "tx" }

\* A hello exchange between a V2 client and a server whose hello has no
\* version field has completed, and both ends speak V1.
C16_Witness ==
    /\ HelloCompleted
    /\ link.cfg.c_ver = << "V2" >>
    /\ link.cfg.s_ver = <<>>
    /\ link.client.rx = "V1"
    /\ link.server.tx = "V1"

\* The hello of the server at the head of the client's stream offers less
\* than the client asked for.
OfferWeak ==
    LET needed == link.cfg.c_key
        offered == Head(link.s2c).encryption
    IN  /\ needed # <<>>
        /\ \/ offered = <<>>
           \/ KeyLen(offered[1]) < KeyLen(needed[1])

\* C17: when the client requested key size s and the server hello offers
\* no encryption or a smaller size, mesh_hello_exchange_sender fails with
\* ServerEncryptionWeak, switches the protocol version of neither stream
\* half and returns no hello metadata; when the offer is at least s it
\* succeeds and reports the size the server offered.
C17_WeakEncryption ==
    /\ [][ (link.client.pc = "wait_hello" /\ link'.client.pc # "wait_hello") =>
             IF OfferWeak
             THEN /\ link'.client.pc = "failed"
                  /\ link'.client.error = "ServerEncryptionWeak"
                  /\ link'.client.switched = {}
                  /\ link'.client.rx = InitialVersion
                  /\ link'.client.tx = InitialVersion
                  /\ link'.client.meta = <<>>
             ELSE /\ link'.client.pc \in { "kex_pk1", "ready" }
                  /\ link'.client.error = "none"
                  /\ link'.client.meta =
                        << [ encryption |-> Head(link.s2c).encryption ] >> ]_vars
    /\ [](link.client.error = "ServerEncryptionWeak" =>
             /\ link.client.switched = {}
             /\ link.client.meta = <<>>
             /\ link.client.key = <<>>)

\* The client asked for Bit256, the server offered Bit128 and the client
\* has failed with ServerEncryptionWeak.
C17_Witness ==
    /\ link.client.error = "ServerEncryptionWeak"
    /\ link.cfg.c_key = << "Bit256" >>
    /\ link.cfg.s_cert = << "Bit128" >>
    /\ ~link.cfg.this_server
    /\ "hello" \in Range(link.client.read)

\* accept_socket is past its certificate check with a negotiated size that
\* exceeds the size of the certificate.
NegotiatedExceeds ==
    /\ link.server.meta # <<>>
    /\ link.server.pc # "cert_check"
    /\ link.cfg.s_cert # <<>>
    /\ link.server.meta[1].encryption # <<>>
    /\ KeyLen(link.cfg.s_cert[1]) < KeyLen(link.server.meta[1].encryption[1])

\* C18: when the encryption size negotiated in the hello exceeds the size
\* of the server certificate, accept_socket fails with
\* CertificateTooWeak(negotiated, certificate) before any key-exchange
\* message is read or written and before any route is dispatched.
C18_CertificateTooWeak ==
    NegotiatedExceeds =>
        /\ link.server.pc = "failed"
        /\ link.server.error = "CertificateTooWeak"
        /\ link.server.detail = << link.server.meta[1].encryption[1],
                                   link.cfg.s_cert[1] >>
        /\ link.server.read = << "hello" >>
        /\ link.server.wrote = << "hello" >>
        /\ link.server.route = "none"
        /\ link.server.ek1 = <<>>
        /\ link.server.key = <<>>

\* The client asked for Bit256, the certificate is Bit128 and accept_socket
\* has failed with CertificateTooWeak(Bit256, Bit128).
C18_Witness ==
    /\ link.cfg.c_key = << "Bit256" >>
    /\ link.cfg.s_cert = << "Bit128" >>
    /\ link.server.error = "CertificateTooWeak"
    /\ link.server.detail = << "Bit256", "Bit128" >>

\* Both ends have come out of the key exchange with a key.
KeyExchanged ==
    /\ link.client.pc = "ready"
    /\ link.client.key # <<>>
    /\ link.server.key # <<>>

\* C19: after a complete run of the key exchange, the messages exchanged
\* in the order pk1, iv1, pk2, iv2, both sides return the same EncryptKey,
\* ek1 XOR ek2 with ek1 the secret encapsulated to the client's fresh key
\* and ek2 the secret encapsulated to the key of the server certificate,
\* also when the two secrets have different sizes.
C19_KeyAgreement ==
    KeyExchanged =>
        LET ek1 == link.server.ek1[1]
            ek2 == link.client.ek2[1]
            key == link.client.key[1]
        IN  /\ link.client.wrote = << "hello", "pk1", "iv2" >>
            /\ link.client.read = << "hello", "iv1", "pk2" >>
            /\ link.server.read = << "hello", "pk1", "iv2" >>
            /\ link.server.wrote = << "hello", "iv1", "pk2" >>
            /\ link.client.ek1 = link.server.ek1
            /\ link.server.ek2 = link.client.ek2
            /\ link.client.key = link.server.key
            /\ Len(key) = Len(ek1)
            /\ \A i \in 1..Len(key) :
                  key[i] = IF i > Len(ek2) THEN ek1[i]
                           ELSE IF ek1[i] = ek2[i] THEN 0 ELSE 1

\* A key exchange has completed whose two secrets have different sizes and
\* are not all zero.
C19_Witness ==
    /\ KeyExchanged
    /\ Len(link.server.ek1[1]) # Len(link.client.ek2[1])
    /\ 1 \in Range(link.server.ek1[1])
    /\ 1 \in Range(link.client.ek2[1])

\* The client has read a pk2 that its certificate validation rejects.
Pk2Rejected ==
    /\ "pk2" \in Range(link.client.read)
    /\ "cert" \notin link.cfg.trusted

\* C20: if the hash of the public key pk2 received from the server is
\* rejected by the client's certificate validation, the client aborts the
\* key exchange with ServerCertificateValidation without encapsulating to
\* pk2 and without sending iv2, and no shared key is returned.
C20_CertificateValidation ==
    Pk2Rejected =>
        /\ link.client.pc = "failed"
        /\ link.client.error = "ServerCertificateValidation"
        /\ link.client.ek2 = <<>>
        /\ "iv2" \notin Range(link.client.wrote)
        /\ \A i \in 1..Len(link.c2s) : link.c2s[i].t # "iv2"
        /\ link.client.key = <<>>
        /\ link.server.key = <<>>

\* The client has aborted the key exchange with
\* ServerCertificateValidation after it read iv1 and pk2.
C20_Witness ==
    /\ link.client.error = "ServerCertificateValidation"
    /\ link.client.read = << "hello", "iv1", "pk2" >>
    /\ link.client.ek1 # <<>>

\* C21: EncryptKey::xor is commutative and associative for all keys a, b, c
\* of any of the three key sizes, operands of different sizes included.
C21_XorLaws ==
    crypto.op = "xor" =>
        /\ crypto.out.ab = crypto.out.ba
        /\ crypto.out.ab_c = crypto.out.a_bc

\* C22: decapsulate applied to the IV of encapsulate(pk) yields the
\* encapsulated key when the private key matches pk, and None when it does
\* not, a different private key of the same size included.
C22_Decapsulate ==
    crypto.op = "kem" =>
        IF crypto.args[1] = crypto.args[2]
        THEN crypto.out.got = << crypto.out.ek >>
        ELSE crypto.out.got = <<>>

\* No Subscribe of session s has succeeded: it was never sent StartOfHistory.
Unsubscribed(s) ==
    \A i \in 1..Len(outbox[s]) : outbox[s][i].t # "StartOfHistory"

\* The root takes a packet of one of the types in T from session s.
Takes(s, T) ==
    /\ root_pc = Idle
    /\ inbox[s] # <<>>
    /\ Head(inbox[s]).t \in T
    /\ inbox'[s] = Tail(inbox[s])
    /\ sent' = sent

\* Session s alone is sent msg, and the chain, the locks and the session
\* contexts stay as they are.
OnlyAnswered(s, msg) ==
    /\ outbox' = [ outbox EXCEPT ![s] = Append(@, msg) ]
    /\ history' = history
    /\ locks' = locks
    /\ context' = context
    /\ chains' = chains
    /\ group' = group
    /\ root_pc' = Idle

\* C23: a session that sends Events, Lock or Unlock before any successful
\* Subscribe is answered NotYetSubscribed, and the request changes no chain
\* log, takes or releases no lock and leaves the session's held-lock set
\* unchanged.
C23_NotYetSubscribed ==
    [][ \A s \in Sessions :
          (Takes(s, { "Events", "Lock", "Unlock" }) /\ Unsubscribed(s)) =>
              OnlyAnswered(s, [ t |-> "NotYetSubscribed" ]) ]_vars

\* While a subscribed session holds a lock, a session that never subscribed
\* has been answered NotYetSubscribed, and it holds nothing.
C23_Witness ==
    \E s \in Sessions :
        /\ Unsubscribed(s)
        /\ outbox[s] # <<>>
        /\ outbox[s][Len(outbox[s])].t = "NotYetSubscribed"
        /\ context[s].locks = {}
        /\ locks # {}

\* C24: a Subscribe for a chain this server does not own is answered with
\* NotThisRoot only; no StartOfHistory, Events or EndOfHistory is sent and
\* the session stays unbound, so a later Events, Lock or Unlock from it is
\* answered NotYetSubscribed.
C24_NotThisRoot ==
    /\ [][ \A s \in Sessions :
            /\ (Takes(s, { "Subscribe" })
                   /\ Head(inbox[s]).chain_key = ForeignChain) =>
                  OnlyAnswered(s, [ t |-> "NotThisRoot" ])
            /\ (Takes(s, { "Events", "Lock", "Unlock" })
                   /\ Unsubscribed(s)
                   /\ [ t |-> "NotThisRoot" ] \in Range(outbox[s])) =>
                  outbox'[s] = Append(outbox[s], [ t |-> "NotYetSubscribed" ])
         ]_vars
    /\ [](\A s \in Sessions :
            Unsubscribed(s) =>
                /\ context[s].chain_key = <<>>
                /\ s \notin group
                /\ \A i \in 1..Len(outbox[s]) :
                      outbox[s][i].t \in { "NotThisRoot", "NotYetSubscribed" })
    /\ [](ForeignChain \notin chains)

\* A session was answered NotThisRoot and then, for a later request,
\* NotYetSubscribed, while another session is subscribed to the chain of
\* this root.
C24_Witness ==
    \E s \in Sessions :
        /\ Len(outbox[s]) >= 2
        /\ outbox[s][1].t = "NotThisRoot"
        /\ outbox[s][2].t = "NotYetSubscribed"
        /\ group # {}

\* The handler is invoked in this step, by hook h for the request k.
Invokes(h, k) ==
    /\ Len(service'.invoked) = Len(service.invoked) + 1
    /\ service'.invoked[Len(service'.invoked)] = << h, k >>

\* The transaction tx deletes the request k and writes one row, the reply
\* to k: its parent is k and it carries Reply(k).
RepliesTo(tx, k) ==
    /\ tx.deleted = { k }
    /\ Len(tx.rows) = 1
    /\ tx.rows[1].parent = << k >>
    /\ << "Reply", k >> \in Range(tx.rows[1].extra_meta)

\* C25: for a request whose Type is the handler's request type, notify
\* invokes the handler only after try_lock on the request key succeeded,
\* and then one transaction both deletes the request row and writes a
\* reply row whose parent is the request key and that carries
\* Reply(request_key); when try_lock fails the handler is not invoked and
\* nothing is written, so each request is handled by at most one of
\* several concurrent hooks.
C25_ServiceDispatch ==
    /\ [][ \A h \in Hooks, k \in Requests :
            Invokes(h, k) =>
                /\ k \in service.locks
                /\ k \in service.hook[h].dio.locked
                /\ service.rows[k] # <<>>
                /\ service.rows[k][1].type_name = RequestType
                /\ service'.hook[h].ret \in { "Ok", "Err" } =>
                      /\ service'.hook[h].pc = "commit"
                      /\ RepliesTo(service'.hook[h].dio, k) ]_vars
    /\ [](\A i \in 1..Len(service.log) :
            \E j \in 1..Len(service.invoked) :
                /\ service.invoked[j][1] = service.log[i].by
                /\ RepliesTo(service.log[i], service.invoked[j][2]))
    /\ [](\A p \in service.skipped :
            /\ p \notin Range(service.invoked)
            /\ \A i \in 1..Len(service.log) :
                  ~(service.log[i].by = p[1] /\ p[2] \in service.log[i].deleted))
    /\ [](\A i \in 1..Len(service.invoked), j \in 1..Len(service.invoked) :
            service.invoked[i][2] = service.invoked[j][2] => i = j)
    /\ [](\A i \in 1..Len(service.log), j \in 1..Len(service.log) :
            service.log[i].deleted = service.log[j].deleted => i = j)

\* One hook was refused the lock on a request that another hook has
\* handled: the handler was invoked once and the reply is committed.
C25_Witness ==
    \E p \in service.skipped :
        /\ Len(service.log) >= 1
        /\ RepliesTo(service.log[1], p[2])
        /\ service.log[1].by # p[1]
        /\ service.rows[p[2]] = <<>>

\* C26: make_url(domain, port, path) yields a URL with the scheme of the
\* protocol whose effective port, the explicit port or the default of the
\* scheme when the URL omits it, equals the given port, for default and
\* for non-default ports alike.
C26_UrlRoundTrip ==
    url.op = "make_url" =>
        /\ url.out.scheme = to_scheme(url.args.protocol)
        /\ effective_port(url.out) = url.args.port

\* The first hash of a sample, in the order of the sample, that is an event
\* of a log, if there is one.
RECURSIVE FirstKnown(_, _)
FirstKnown(sample, log) ==
    IF sample = <<>> THEN <<>>
    ELSE IF Head(sample) \in Range(log) THEN << Head(sample) >>
    ELSE FirstKnown(Tail(sample), log)

\* The root sends the first batch of a replay: the reply before it is the
\* StartOfHistory of the subscription.
FirstBatch ==
    /\ ReplayBatch
    /\ LET out == outbox[root_pc.session]
       IN  out # <<>> /\ out[Len(out)].t = "StartOfHistory"

\* C27: the replay of a subscription starts at the first hash of the
\* client's history_sample, in the order of the list, that the server finds
\* in its history, also when a later hash of the list is a more recent
\* event; when no hash of the sample is found it starts at the first event
\* of the log, and a subscription to an empty log replays nothing.
C27_ResumePoint ==
    /\ [][ FirstBatch =>
             LET out == outbox'[root_pc.session]
                 f == FirstKnown(root_pc.sample, root_pc.log)
             IN  out[Len(out)].evts[1] =
                     IF f # <<>> THEN f[1] ELSE root_pc.log[1] ]_vars
    /\ [][ (RecvSubscribe /\ root_pc'.state = "replay" /\ history = <<>>) =>
             root_pc'.cur = <<>> ]_vars

\* A replay for the sample << 1, 2 >>, both events of the log, has sent its
\* first batch, which begins with event 1 although event 2 is more recent;
\* and a replay for a sample of unknown hashes only has sent its first batch.
C27_Witness ==
    /\ root_pc.state = "replay"
    /\ root_pc.sample = << 1, 2 >>
    /\ { 1, 2 } \subseteq Range(root_pc.log)
    /\ LET out == outbox[root_pc.session]
       IN  /\ Len(out) >= 2
           /\ out[Len(out) - 1].t = "StartOfHistory"
           /\ out[Len(out)].t = "Events"
           /\ out[Len(out)].evts[1] = 1

\* C28 as stated: feeding an event header handles all of its Tombstone
\* entries first and then its Data and Tree entries; so after an event with
\* Tombstone(k1), Data(k2) and a payload the primary map has no k1 and has
\* k2 with the hash of the event, and after an event with Tombstone(k1) and
\* Tombstone(k2) it has neither key.
C28_FeedRule ==
    indexer.last # <<>> =>
        LET entry == indexer.last[1]
        IN  \A k1 \in Keys, k2 \in Keys :
              /\ ( /\ k1 # k2
                   /\ HasTombstone(entry, k1)
                   /\ HasData(entry, k2)
                   /\ ~HasTombstone(entry, k2) ) =>
                     /\ lookup_primary(indexer.idx, k1) = <<>>
                     /\ lookup_primary(indexer.idx, k2) = << entry.event_hash >>
              /\ ( HasTombstone(entry, k1) /\ HasTombstone(entry, k2) ) =>
                     /\ lookup_primary(indexer.idx, k1) = <<>>
                     /\ lookup_primary(indexer.idx, k2) = <<>>

\* The registered paths a hello path starts with.
Matching(path) == { test \in router.routes : starts_with(path, test) }

\* C29 as stated: accept_socket hands a connection to the registered route
\* whose path is the longest prefix of the hello path; to the default route
\* exactly when no registered path is a prefix; and to nothing when there
\* is no match and no default route.
C29_LongestPrefix ==
    [][ (router'.accepted # router.accepted /\ router'.routes = router.routes
           /\ router'.accepted # <<>>) =>
          LET a == router'.accepted[1]
              m == Matching(a.path)
          IN  IF m # {}
              THEN a.to = << "route",
                             CHOOSE t \in m : \A u \in m : Len(u) <= Len(t) >>
              ELSE IF router.default_route THEN a.to = << "default" >>
              ELSE a.to = <<>> ]_vars

\* The loop has just processed a packet with a BrokenPipe error.
BrokenPipeStep ==
    /\ loop.pc = "running"
    /\ loop'.last = "BrokenPipe"
    /\ loop'.pipes = loop.pipes + 1

\* C30: a BrokenPipe error of processing a packet leaves the loop running
\* only on a WebSocket carrier and only while fewer than 10 BrokenPipe
\* errors came since the last success; the BrokenPipe after 10 of them, and
\* any BrokenPipe on a TCP carrier, closes the connection; and a packet
\* processed with success sets the hiccup count to 0.
C30_Hiccups ==
    /\ [][ BrokenPipeStep =>
             ( loop'.pc = "running" <=>
                 (loop.protocol # "Tcp" /\ loop.pipes < 10) ) ]_vars
    /\ [](loop.last = "Ok" => loop.hickup_count = 0)
    /\ [](loop.pc = "closed" => loop.shutdown = 1)

\* A WebSocket connection was closed by the BrokenPipe that came after ten
\* hiccups in a row.
C30_Witness ==
    /\ loop.pc = "closed"
    /\ loop.protocol = "WebSocket"
    /\ loop.last = "BrokenPipe"
    /\ loop.pipes = 11

\* The loop has just processed a packet with the result r.
Processed(r) ==
    /\ loop.pc = "running"
    /\ loop' # loop
    /\ loop'.last = r

\* C31: after a packet whose processing fails with ReadOnly or with a
\* ValidationError the loop is still running and reads the next frame; after
\* Disconnected, UnexpectedEof, ConnectionAborted, ConnectionReset,
\* NotYetSubscribed, CertificateTooWeak, MissingCertificate,
\* ServerEncryptionWeak or FatalError the loop has ended, and a loop that has
\* ended processes no further frame.
C31_ErrorTaxonomy ==
    /\ [][ \A r \in { "ReadOnly", "ValidationError" } :
             Processed(r) => loop'.pc = "running" ]_vars
    /\ [][ \A r \in { "Disconnected", "UnexpectedEof", "ConnectionAborted",
                       "ConnectionReset", "NotYetSubscribed",
                       "CertificateTooWeak", "MissingCertificate",
                       "ServerEncryptionWeak", "FatalError" } :
             Processed(r) => loop'.pc = "closed" ]_vars
    /\ [][ loop.pc = "closed" => loop' = loop ]_vars

\* A connection on which a hiccup was put up with was closed by a
\* NotYetSubscribed error.
C31_Witness ==
    /\ loop.pc = "closed"
    /\ loop.last = "NotYetSubscribed"
    /\ loop.hickup_count > 0

\* The exit broadcast has just ended the loop.
Cancelled ==
    /\ loop.pc = "running"
    /\ loop'.pc = "closed"
    /\ loop'.last = "exit"

\* C32: when the exit broadcast fires while the loop waits for the next
\* frame, the loop ends without processing a further frame (the hiccup count
\* and the count of broken pipes stay as they were, and nothing follows),
\* the shutdown hook of the processor runs, and process_inbox returns Ok.
C32_Cancellation ==
    /\ [][ Cancelled =>
             /\ loop'.hickup_count = loop.hickup_count
             /\ loop'.pipes = loop.pipes
             /\ loop'.shutdown = loop.shutdown + 1
             /\ loop'.ret = "Ok" ]_vars
    /\ [][ (loop.pc = "closed" /\ loop.last = "exit") => loop' = loop ]_vars
    /\ []((loop.pc = "closed" /\ loop.last = "exit") =>
            (loop.shutdown = 1 /\ loop.ret = "Ok"))

\* A WebSocket connection that had put up with hiccups was ended by the
\* exit broadcast.
C32_Witness ==
    /\ loop.pc = "closed"
    /\ loop.last = "exit"
    /\ loop.protocol = "SecureWebSocket"
    /\ loop.hickup_count = 2
    /\ loop.ret = "Ok"

\* C36: inbox.shutdown is called exactly once on every way out of the read
\* loop (the exit broadcast, an error of the read, a frame of length zero,
\* an error of the deserializer, a processing error that closes) and never
\* while the loop still reads frames.
C36_ShutdownOnce ==
    /\ [](loop.pc = "closed" <=> loop.shutdown = 1)
    /\ [](loop.pc # "closed" => loop.shutdown = 0)
    /\ [][ (loop.pc = "running" /\ loop'.pc = "closed") =>
             /\ loop'.shutdown = loop.shutdown + 1
             /\ loop'.last \in Exits \cup (ProcessResults \ { "Ok" }) ]_vars
    /\ [][ loop.shutdown = 1 => loop'.shutdown = 1 ]_vars

\* The loop was left by an error of the deserializer after it had processed
\* packets, the hook was called and the error was returned.
C36_Witness ==
    /\ loop.pc = "closed"
    /\ loop.last = "DeserializeError"
    /\ loop.ret = "Err"
    /\ loop.shutdown = 1
    /\ loop.pipes > 0

\* The sends of the handler are pending: the notification and the multicast,
\* or the reply to the commit.
SendsPending == writer.pc \in { "notify", "reply" }

\* C33 as stated: the writer lock is held only during the feed and is free
\* while the handler notifies, multicasts and replies, so that the feed of
\* another session that has an Events packet waiting can proceed while those
\* sends are pending.
C33_FeedsOverlap ==
    /\ SendsPending => writer.single # << "inbox" >>
    /\ \A t \in Sessions :
          ( SendsPending /\ t # writer.cur /\ writer.queue[t] > 0 ) =>
              ENABLED WrTakeOf(t)

\* C33, amended: the inbox task holds the writer lock only during the feed;
\* the lock is free of it while it notifies, multicasts and replies, so a
\* writer on the server itself can feed meanwhile; the packets of the
\* sessions are handled by the one inbox task of the root, one after the
\* other, so the packet of another session is taken only after the handler
\* has returned.
C33_LockScope ==
    /\ [](SendsPending => writer.single # << "inbox" >>)
    /\ [](writer.single = << "inbox" >> => writer.pc = "feed")
    /\ [][ (\E t \in Sessions : writer'.queue[t] < writer.queue[t]) =>
             writer.pc = "idle" ]_vars

\* While the reply to the commit of a session is pending, a writer on the
\* server holds the writer lock, and another session's packet waits.
C33_Witness ==
    /\ writer.pc = "reply"
    /\ writer.single = << "local" >>
    /\ \E t \in Sessions : t # writer.cur /\ writer.queue[t] > 0

\* The disconnect hook of a session has just run a step.
HookStep ==
    \E s \in Sessions :
        /\ conn[s] = "dropped"
        /\ (conn'[s] # conn[s] \/ context'[s] # context[s])

\* C34 as stated: a key is in the held-lock set of a session only when a
\* Lock of that session for the key was answered is_locked = true; and the
\* disconnect of a session does not unlock a key that another session holds.
C34_HeldLocks ==
    /\ [](\A s \in Sessions, k \in Keys :
            k \in context[s].locks => Granted(s, k))
    /\ [][ \A k \in Keys :
             (HookStep /\ holders[k] # {} /\ k \in locks) => k \in locks'
         ]_vars

\* The root handles the message of kind t at the head of the inbox of a
\* subscribed session s, and the message names the key k.
HandlesKey(s, t, k) ==
    /\ Taking(s, t)
    /\ inbox'[s] = Tail(inbox[s])
    /\ Head(inbox[s]).key = k
    /\ inbox_get_chain(s) # <<>>

\* C35 as stated: an Unlock{k} of a subscribed session that does not hold
\* the lock on k leaves the lock with its holder, and the Lock{k} of a
\* session other than the holder is still answered is_locked = false.
C35_UnlockByNonHolder ==
    /\ [][ \A s \in Sessions, k \in Keys :
             (HandlesKey(s, "Unlock", k) /\ s \notin holders[k]) =>
                 (locks' = locks /\ holders' = holders) ]_vars
    /\ [][ \A t \in Sessions, k \in Keys :
             (HandlesKey(t, "Lock", k) /\ holders[k] \ {t} # {}) =>
                 outbox'[t] = Append(outbox[t], LockResult(k, FALSE)) ]_vars

\* C37 as stated: lookup_secondary(c) lists each live child of collection c
\* once, however often the child was written again with the same Tree
\* entry, and lists no child that the primary map does not hold.
C37_NoDuplicates ==
    \A c \in Collections :
        LET listed == lookup_secondary(indexer.idx, c)
        IN  /\ \A i \in 1..Len(listed), j \in 1..Len(listed) :
                  listed[i] = listed[j] => i = j
            /\ \A i \in 1..Len(listed) :
                  \E k \in Keys : lookup_primary(indexer.idx, k) = << listed[i] >>

\* The groups a connection is a member of.
MemberOf(c) == { g \in TxGroups : c \in txg.all[g] }

\* C38 as stated: once replace_group(g) has completed the connection is a
\* member of g and of no other group, also when g is the group it belonged
\* to before; and at no point is it a member of no group.
C38_GroupMembership ==
    \A c \in TxIds :
        /\ MemberOf(c) # {}
        /\ txg.pc[c] = "idle" => MemberOf(c) = { txg.group[c] }

\* C39: whatever the number and the interleaving of the calls of shutdown
\* on a chain, with backup mode Rotating or Full the backup of the log is
\* started at most once, with the active segment exactly in mode Full; with
\* mode None or Restore no backup is started and the flag stays unset.
C39_BackupOnce ==
    /\ Len(closing.backups) <= 1
    /\ \A i \in 1..Len(closing.backups) :
          /\ closing.mode \in { "Rotating", "Full" }
          /\ closing.backups[i] = (closing.mode = "Full")
    /\ closing.mode \in { "None", "Restore" } =>
          (closing.backups = <<>> /\ ~closing.is_shutdown)
    /\ closing.is_shutdown => Len(closing.backups) = 1

\* In mode Full one backup with the active segment was made, and all the
\* calls that can be made have returned.
C39_Witness ==
    /\ closing.mode = "Full"
    /\ closing.backups = << TRUE >>
    /\ closing.calls = MaxShutdownCalls
    /\ \A c \in Closers : closing.pc[c] = "idle" /\ closing.ret[c] = "Ok"

\* The wait of one direction as the claim gives it, for a limit above 0.
ExcessWait(limit, rate) ==
    IF limit # <<>> /\ limit[1] > 0 /\ rate > limit[1]
    THEN { ((rate - limit[1]) * 1000) \div limit[1] }
    ELSE {}

\* C40 as stated: the computation of the wait is defined for every limit
\* and every traffic delta, a limit of 0 bytes per second with traffic in
\* the interval included, and the wait that is chosen is the larger of the
\* waits of the two directions.
C40_ThrottleTotal ==
    throttle.op = "wait_time" =>
        LET a == throttle.args
            waits == ExcessWait(a.throttle.download_per_second,
                                (a.sent * 1000) \div a.ms)
                       \cup ExcessWait(a.throttle.upload_per_second,
                                       (a.received * 1000) \div a.ms)
        IN  /\ ~throttle.out.panic
            /\ \A w \in waits :
                  /\ throttle.out.wait # <<>>
                  /\ throttle.out.wait[1] >= w
            /\ throttle.out.wait # <<>> => throttle.out.wait[1] \in waits

====
